---------------------------- MODULE Spec2Model ----------------------------
(***************************************************************************)
(* A model of the slash-command interpretation engine of ui_process:       *)
(* the chat command server (src/mcp-servers/chat-command-server.py) and    *)
(* the workflow command server (src/mcp-servers/workflow-command-server.py)*)
(* and the association store of the note-taking server                     *)
(* (src/mcp-servers/note-taking-server.py).                                *)
(*                                                                         *)
(* Strings are TLA+ strings read character by character (SubSeq, Len, \o). *)
(* A Python value that may be None is an option: None is <<>> and the      *)
(* string s is <<s>>.  A Python dict is a function whose domain is the set *)
(* of keys that are present.  A Python list is a sequence.                 *)
(***************************************************************************)
EXTENDS Integers, Sequences, FiniteSets, TLC

VARIABLES
    pc,          \* which call returned last
    input_text,  \* the raw text handed to the last parse call
    parsed,      \* the dict the last parse call returned
    validation,  \* the dict the last validate call returned
    execution,   \* the dict the last execute call returned
    completion,  \* the dict the last suggest_command_completion call returned
    extraction,  \* the dict the last extract_context_from_input call returned
    help,        \* the dict the last help call returned
    registry,    \* the tables the two servers hold: patterns, descriptions, valid values
    first_parse, \* history: for each server and argument parsed so far, what the
                 \* first parse returned and whether it has been parsed again
    opportunities,     \* note-taking server: the rows of table opportunities
    note_associations, \* note-taking server: the rows of table note_associations
    outcome            \* note-taking server: the dict the last call returned

vars == <<pc, input_text, parsed, validation, execution, completion, extraction,
          help, registry, first_parse, opportunities, note_associations, outcome>>

\* What the chat and workflow servers' calls change, and what the note-taking
\* server's calls change
command_vars == <<pc, input_text, parsed, validation, execution, completion,
                  extraction, help, registry, first_parse>>
notes_vars == <<opportunities, note_associations, outcome>>

-----------------------------------------------------------------------------
(* Python values *)

None == <<>>
Some(s) == <<s>>
\* Python truthiness of a str-or-None value: None and '' are falsy.
Truthy(v) == v # None /\ v[1] # ""
EmptyDict == <<>>
\* dict.get(key) for a key whose values are str-or-None.
Get(d, k) == IF k \in DOMAIN d THEN d[k] ELSE None
\* dict.get(key) read as a condition, for a key whose values are booleans.
GetFlag(d, k) == IF k \in DOMAIN d THEN d[k] ELSE FALSE

-----------------------------------------------------------------------------
(* Characters and the string methods the servers use *)

Digits == {"0", "1", "2", "3", "4", "5", "6", "7", "8", "9"}
LowerLetters ==
    {"a", "b", "c", "d", "e", "f", "g", "h", "i", "j", "k", "l", "m",
     "n", "o", "p", "q", "r", "s", "t", "u", "v", "w", "x", "y", "z"}
\* str.lower() on one character: the upper-case letters and their images.
ToLower ==
    [A |-> "a", B |-> "b", C |-> "c", D |-> "d", E |-> "e", F |-> "f",
     G |-> "g", H |-> "h", I |-> "i", J |-> "j", K |-> "k", L |-> "l",
     M |-> "m", N |-> "n", O |-> "o", P |-> "p", Q |-> "q", R |-> "r",
     S |-> "s", T |-> "t", U |-> "u", V |-> "v", W |-> "w", X |-> "x",
     Y |-> "y", Z |-> "z"]
UpperLetters == DOMAIN ToLower
\* \w of Python's re, on the characters of the model's inputs.
WordChars == LowerLetters \cup UpperLetters \cup Digits \cup {"_"}
\* \s of Python's re and the characters str.strip() and str.split() drop.
Whitespace == {" ", "\t", "\n", "\r", "\f"}

CharAt(s, i) == SubSeq(s, i, i)

LowerChar(c) == IF c \in UpperLetters THEN ToLower[c] ELSE c

RECURSIVE lower(_)
lower(s) ==
    IF s = "" THEN ""
    ELSE LowerChar(CharAt(s, 1)) \o lower(SubSeq(s, 2, Len(s)))

\* startswith with the slip `p in s`: p is looked for anywhere in s.
startswith_anywhere(s, p) ==
    \E i \in 1..(Len(s) - Len(p) + 1) : SubSeq(s, i, i + Len(p) - 1) = p

startswith(s, p) == Len(p) <= Len(s) /\ SubSeq(s, 1, Len(p)) = p

\* Python's `sub in s`.
contains(s, sub) ==
    \E i \in 1..(Len(s) - Len(sub) + 1) : SubSeq(s, i, i + Len(sub) - 1) = sub

RECURSIVE lstrip(_)
lstrip(s) ==
    IF s # "" /\ CharAt(s, 1) \in Whitespace
    THEN lstrip(SubSeq(s, 2, Len(s)))
    ELSE s

RECURSIVE rstrip(_)
rstrip(s) ==
    IF s # "" /\ CharAt(s, Len(s)) \in Whitespace
    THEN rstrip(SubSeq(s, 1, Len(s) - 1))
    ELSE s

\* str.strip()
strip(s) == rstrip(lstrip(s))

\* The length of the longest prefix of s without whitespace.
RECURSIVE TokenLen(_)
TokenLen(s) ==
    IF s = "" \/ CharAt(s, 1) \in Whitespace THEN 0
    ELSE 1 + TokenLen(SubSeq(s, 2, Len(s)))

\* str.split(): the maximal runs of non-whitespace characters, in order.
RECURSIVE split(_)
split(s) ==
    LET t == lstrip(s)
        n == TokenLen(t)
    IN  IF t = "" THEN <<>>
        ELSE <<SubSeq(t, 1, n)>> \o split(SubSeq(t, n + 1, Len(t)))

\* sep.join(list)
RECURSIVE join(_, _)
join(sep, list) ==
    IF list = <<>> THEN ""
    ELSE IF Len(list) = 1 THEN list[1]
    ELSE list[1] \o sep \o join(sep, Tail(list))

\* set(s): the set of the characters of s.
CharSet(s) == {CharAt(s, i) : i \in 1..Len(s)}

-----------------------------------------------------------------------------
(* Python's re.match(pattern, text, re.IGNORECASE)                           *)
(*                                                                           *)
(* A pattern is a sequence of nodes; the matcher is the backtracking matcher *)
(* of re: quantifiers are greedy, an optional part is tried before it is     *)
(* skipped, alternatives are tried left to right, and the first way through  *)
(* the whole pattern decides the groups.                                     *)

\* Nodes
Lit(s) == [t |-> "lit", s |-> s, ic |-> TRUE]          \* literal text under re.IGNORECASE
LitCase(s) == [t |-> "lit", s |-> s, ic |-> FALSE]     \* literal text, no flag
\* A character class repeated: at least min times, and more than once only if many.
Cls(c, min, many) == [t |-> "cls", c |-> c, min |-> min, many |-> many]
Grp(n, r) == [t |-> "grp", n |-> n, r |-> r]           \* ( ... ), group number n
Opt(r) == [t |-> "opt", r |-> r]                       \* (?: ... )?
Alt(rs) == [t |-> "alt", rs |-> rs]                    \* (?: a | b )
End == [t |-> "end"]                                   \* $
Wb == [t |-> "wb"]                                     \* \b
Close(n, from) == [t |-> "close", n |-> n, from |-> from]

\* Character classes
InClass(c, ch) ==
    CASE c = "w" -> ch \in WordChars                   \* \w
      [] c = "d" -> ch \in Digits                      \* \d
      [] c = "s" -> ch \in Whitespace                  \* \s
      [] c = "S" -> ch \notin Whitespace               \* \S and [^\s]
      [] c = "." -> ch # "\n"                          \* .
      [] c = "q" -> ch # "\""                          \* [^"]
      [] c = "-" -> ch \in {"-", "_"}                  \* [-_]
      [] c = "/" -> ch \in {"/", "-"}                  \* [/-]
      [] c = "a" -> ch \in LowerLetters \cup UpperLetters   \* [a-zA-Z]

W1 == Cls("w", 1, TRUE)      \* \w+
D1 == Cls("d", 1, TRUE)      \* \d+
S1 == Cls("s", 1, TRUE)      \* \s+
NS1 == Cls("S", 1, TRUE)     \* \S+
Any1 == Cls(".", 1, TRUE)    \* .+
Any0 == Cls(".", 0, TRUE)    \* .*
NQ1 == Cls("q", 1, TRUE)     \* [^"]+
Dash == Cls("-", 0, FALSE)            \* [-_]?
Quote == Lit("\"")
\* "([^"]+)" with group number n
Quoted(n) == <<Quote, Grp(n, <<NQ1>>), Quote>>

\* Whether position i of text holds a word character; no position outside does.
IsWordAt(text, i) == i >= 1 /\ i <= Len(text) /\ CharAt(text, i) \in WordChars

\* The number of characters from position i on that are in class c, at most max.
RECURSIVE Run(_, _, _, _)
Run(c, text, i, max) ==
    IF max = 0 \/ i > Len(text) \/ ~InClass(c, CharAt(text, i)) THEN 0
    ELSE 1 + Run(c, text, i + 1, max - 1)

\* The groups of the first way to match nodes rs from position i, as <<groups>>,
\* or <<>> when there is none.
RECURSIVE Match(_, _, _, _)
RECURSIVE Greedy(_, _, _, _, _, _)
RECURSIVE FirstAlt(_, _, _, _, _)

Match(rs, text, i, g) ==
    IF rs = <<>> THEN <<g>>
    ELSE
      LET h == Head(rs)
          rest == Tail(rs)
      IN  CASE h.t = "lit" ->
                 IF /\ i + Len(h.s) - 1 <= Len(text)
                    /\ IF h.ic
                       THEN lower(SubSeq(text, i, i + Len(h.s) - 1)) = lower(h.s)
                       ELSE SubSeq(text, i, i + Len(h.s) - 1) = h.s
                 THEN Match(rest, text, i + Len(h.s), g)
                 ELSE <<>>
            [] h.t = "cls" ->
                 Greedy(rest, text, i, g,
                        Run(h.c, text, i, IF h.many THEN Len(text) ELSE 1), h.min)
            [] h.t = "grp" ->
                 Match(h.r \o <<Close(h.n, i)>> \o rest, text, i, g)
            [] h.t = "close" ->
                 Match(rest, text, i,
                       [g EXCEPT ![h.n] = Some(SubSeq(text, h.from, i - 1))])
            [] h.t = "opt" ->
                 LET taken == Match(h.r \o rest, text, i, g)
                 IN  IF taken # <<>> THEN taken ELSE Match(rest, text, i, g)
            [] h.t = "alt" -> FirstAlt(h.rs, rest, text, i, g)
            [] h.t = "end" ->
                 IF \/ i = Len(text) + 1
                    \/ i = Len(text) /\ CharAt(text, i) = "\n"
                 THEN Match(rest, text, i, g)
                 ELSE <<>>
            [] h.t = "wb" ->
                 IF IsWordAt(text, i - 1) # IsWordAt(text, i)
                 THEN Match(rest, text, i, g)
                 ELSE <<>>

\* A greedy repetition that can take k characters: the longest first.
Greedy(rest, text, i, g, k, min) ==
    IF k < min THEN <<>>
    ELSE LET r == Match(rest, text, i + k, g)
         IN  IF r # <<>> THEN r ELSE Greedy(rest, text, i, g, k - 1, min)

FirstAlt(alts, rest, text, i, g) ==
    IF alts = <<>> THEN <<>>
    ELSE LET r == Match(Head(alts) \o rest, text, i, g)
         IN  IF r # <<>> THEN r ELSE FirstAlt(Tail(alts), rest, text, i, g)

\* re.match(pattern, text, re.IGNORECASE) for a pattern with n groups:
\* <<match.groups()>> on a match, <<>> (no match) otherwise.
re_match(pattern, text) ==
    Match(pattern.re, text, 1, [k \in 1..pattern.groups |-> None])

\* re_search with the slip of taking the last match, not the first.
RECURSIVE re_search_last(_, _, _)
re_search_last(re, text, i) ==
    IF i > Len(text) + 1 THEN None
    ELSE LET later == re_search_last(re, text, i + 1)
             m == Match(re, text, i, <<None>>)
         IN  IF later # None THEN later
             ELSE IF m # <<>> THEN m[1][1] ELSE None

\* re.search(pattern, text) without flags, for the patterns of one group:
\* the group of the leftmost match from position i on, None when there is none.
RECURSIVE re_search(_, _, _)
re_search(re, text, i) ==
    IF i > Len(text) + 1 THEN None
    ELSE LET m == Match(re, text, i, <<None>>)
         IN  IF m # <<>> THEN m[1][1] ELSE re_search(re, text, i + 1)

\* re.findall(pattern, text) for a pattern of one group that matches no empty
\* text: the group of every match, left to right, each search starting where
\* the match before it ended.
RECURSIVE re_findall(_, _, _)
re_findall(re, text, i) ==
    IF i > Len(text) THEN <<>>
    ELSE LET m == Match(<<Grp(2, re)>>, text, i, <<None, None>>)
         IN  IF m = <<>> THEN re_findall(re, text, i + 1)
             ELSE <<m[1][1][1]>> \o re_findall(re, text, i + Len(m[1][2][1]))

Pattern(name, groups, re) == [name |-> name, groups |-> groups, re |-> re]

-----------------------------------------------------------------------------
(* The pattern tables, in the order of the dicts (the order parse tries them) *)

\* ^/a[-_]?b
Cmd(a, b) == <<Lit("/" \o a), Dash, Lit(b)>>
\* a[-_]?b, one alternative of a command's spellings
Word2(a, b) == <<Lit(a), Dash, Lit(b)>>

WorkflowCommandPatterns ==
    << \* Node Management Commands
       Pattern("node-create", 5,
           Cmd("node", "create") \o
           <<S1, Grp(1, <<W1>>),
             Opt(<<S1, Alt(<<Quoted(2), <<Grp(3, <<W1>>)>> >>)>>),
             Opt(<<S1, Grp(4, <<D1>>), Lit(","), Grp(5, <<D1>>)>>), End>>),
       Pattern("node-delete", 1,
           <<Lit("/"), Alt(<<Word2("node", "delete"), Word2("delete", "node"),
                             Word2("remove", "node")>>),
             S1, Grp(1, <<Any1>>), End>>),
       Pattern("node-rename", 2,
           Cmd("node", "rename") \o <<S1>> \o Quoted(1) \o <<S1>> \o Quoted(2) \o <<End>>),
       Pattern("node-move", 3,
           Cmd("node", "move") \o
           <<S1, Grp(1, <<Any1>>), S1, Grp(2, <<D1>>), Lit(","), Grp(3, <<D1>>), End>>),
       Pattern("node-type", 2,
           Cmd("node", "type") \o <<S1, Grp(1, <<Any1>>), S1, Grp(2, <<W1>>), End>>),
       \* Task Management Commands
       Pattern("task-create", 3,
           <<Lit("/"), Alt(<<Word2("task", "create"), Word2("add", "task"),
                             Word2("create", "task")>>), S1>> \o Quoted(1) \o
           <<Opt(<<S1>> \o Quoted(2)), Opt(<<S1, Grp(3, <<W1>>)>>), End>>),
       Pattern("task-delete", 1,
           Cmd("task", "delete") \o <<S1, Grp(1, <<Any1>>), End>>),
       Pattern("task-move", 2,
           Cmd("task", "move") \o <<S1, Grp(1, <<Any1>>), S1>> \o Quoted(2) \o <<End>>),
       Pattern("task-advance", 2,
           Cmd("task", "advance") \o <<S1, Grp(1, <<Any1>>), S1>> \o Quoted(2) \o <<End>>),
       Pattern("task-priority", 2,
           Cmd("task", "priority") \o <<S1, Grp(1, <<Any1>>), S1, Grp(2, <<W1>>), End>>),
       \* Flowline Management Commands
       Pattern("flowline-create", 3,
           <<Lit("/"), Alt(<<Word2("flowline", "create"), <<Lit("connect")>> >>), S1>> \o
           Quoted(1) \o <<S1>> \o Quoted(2) \o <<Opt(<<S1, Grp(3, <<W1>>)>>), End>>),
       Pattern("flowline-delete", 2,
           <<Lit("/"), Alt(<<Word2("flowline", "delete"), <<Lit("disconnect")>> >>), S1>> \o
           Quoted(1) \o <<S1>> \o Quoted(2) \o <<End>>),
       Pattern("flowline-type", 3,
           Cmd("flowline", "type") \o <<S1>> \o Quoted(1) \o <<S1>> \o Quoted(2) \o
           <<S1, Grp(3, <<W1>>), End>>),
       Pattern("disconnect-all", 0, <<Lit("/disconnect"), S1, Lit("all"), End>>),
       \* Tag Management Commands
       Pattern("tag-create", 3,
           Cmd("tag", "create") \o <<S1>> \o Quoted(1) \o
           <<Opt(<<S1, Grp(2, <<W1>>)>>), Opt(<<S1, Grp(3, <<Any1>>)>>), End>>),
       Pattern("tag-add", 2,
           Cmd("tag", "add") \o <<S1>> \o Quoted(1) \o <<S1, Grp(2, <<Any1>>), End>>),
       Pattern("tag-remove", 2,
           Cmd("tag", "remove") \o <<S1>> \o Quoted(1) \o <<S1, Grp(2, <<Any1>>), End>>),
       Pattern("tag-list", 1,
           Cmd("tag", "list") \o <<Opt(<<S1, Grp(1, <<Any1>>)>>), End>>),
       \* Workflow Management Commands
       Pattern("workflow-save", 1,
           Cmd("workflow", "save") \o <<Opt(<<S1>> \o Quoted(1)), End>>),
       Pattern("workflow-load", 1,
           Cmd("workflow", "load") \o <<S1>> \o Quoted(1) \o <<End>>),
       Pattern("workflow-export", 1,
           Cmd("workflow", "export") \o <<Opt(<<S1, Grp(1, <<W1>>)>>), End>>),
       Pattern("workflow-clear", 1,
           <<Lit("/workflow"), Dash, Alt(<< <<Lit("clear")>>, <<Lit("reset")>> >>),
             Opt(<<S1, Grp(1, <<Alt(<< <<Lit("yes")>>, <<Lit("confirm")>> >>)>>)>>), End>>),
       Pattern("workflow-status", 0, Cmd("workflow", "status") \o <<End>>),
       Pattern("workflow-stats", 0, Cmd("workflow", "stats") \o <<End>>),
       \* Matrix and View Commands
       Pattern("matrix-enter", 0, Cmd("matrix", "enter") \o <<End>>),
       Pattern("matrix-exit", 0, Cmd("matrix", "exit") \o <<End>>),
       Pattern("matrix-move", 2,
           Cmd("matrix", "move") \o
           <<S1, Grp(1, <<Any1>>), S1, Grp(2, <<W1, Cls("-", 1, FALSE), W1>>), End>>),
       Pattern("matrix-show", 1,
           Cmd("matrix", "show") \o
           <<Opt(<<S1, Grp(1, <<W1, Cls("-", 1, FALSE), W1>>)>>), End>>),
       \* View Operations
       Pattern("view-zoom", 1, Cmd("view", "zoom") \o <<S1, Grp(1, <<Any1>>), End>>),
       Pattern("view-center", 1,
           Cmd("view", "center") \o <<Opt(<<S1>> \o Quoted(1)), End>>),
       Pattern("view-focus", 1, Cmd("view", "focus") \o <<S1, Grp(1, <<Any1>>), End>>),
       \* Selection Commands
       Pattern("select", 1, <<Lit("/select"), S1, Grp(1, <<Any1>>), End>>),
       Pattern("select-all", 1,
           Cmd("select", "all") \o <<Opt(<<S1, Grp(1, <<W1>>)>>), End>>),
       Pattern("select-none", 0, Cmd("select", "none") \o <<End>>),
       Pattern("select-by", 1, Cmd("select", "by") \o <<S1, Grp(1, <<Any1>>), End>>),
       \* Navigation Commands
       Pattern("goto", 1, <<Lit("/goto"), S1>> \o Quoted(1) \o <<End>>),
       Pattern("find", 1, <<Lit("/find"), S1>> \o Quoted(1) \o <<End>>),
       Pattern("next", 1, <<Lit("/next"), Opt(<<S1, Grp(1, <<W1>>)>>), End>>),
       Pattern("previous", 1, <<Lit("/previous"), Opt(<<S1, Grp(1, <<W1>>)>>), End>>),
       \* Batch Operations
       Pattern("batch-create", 2,
           Cmd("batch", "create") \o <<S1, Grp(1, <<W1>>), S1, Grp(2, <<Any1>>), End>>),
       Pattern("batch-connect", 2,
           Cmd("batch", "connect") \o <<S1>> \o Quoted(1) \o <<S1>> \o Quoted(2) \o <<End>>),
       Pattern("batch-tag", 2,
           Cmd("batch", "tag") \o <<S1>> \o Quoted(1) \o <<S1, Grp(2, <<Any1>>), End>>)
    >>

\* "(?:"([^"]+)"|(.+))": a quoted query (group 1) or anything (group 2)
QuotedOrAny == Alt(<<Quoted(1), <<Grp(2, <<Any1>>)>> >>)

ChatCommandPatterns ==
    << \* Note-taking commands
       Pattern("note", 1, <<Lit("/note"), Opt(<<S1, Grp(1, <<Any1>>)>>), End>>),
       Pattern("note-create", 1, Cmd("note", "create") \o <<S1, Grp(1, <<Any1>>), End>>),
       Pattern("note-search", 1, Cmd("note", "search") \o <<S1, Grp(1, <<Any1>>), End>>),
       Pattern("note-find", 1, Cmd("note", "find") \o <<S1, Grp(1, <<Any1>>), End>>),
       Pattern("note-tag", 2,
           Cmd("note", "tag") \o <<S1, Grp(1, <<NS1>>), S1, Grp(2, <<Any1>>), End>>),
       Pattern("note-list", 1,
           Cmd("note", "list") \o <<Opt(<<S1, Grp(1, <<Any0>>)>>), End>>),
       Pattern("note-link", 2,
           Cmd("note", "link") \o <<S1, Grp(1, <<NS1>>), S1, Grp(2, <<NS1>>), End>>),
       \* Opportunity commands
       Pattern("opp", 1, <<Lit("/opp"), Opt(<<S1, Grp(1, <<Any1>>)>>), End>>),
       Pattern("opp-create", 1, Cmd("opp", "create") \o <<S1, Grp(1, <<Any1>>), End>>),
       Pattern("opp-list", 1,
           Cmd("opp", "list") \o <<Opt(<<S1, Grp(1, <<Any0>>)>>), End>>),
       Pattern("opp-link", 2,
           Cmd("opp", "link") \o <<S1, Grp(1, <<NS1>>), S1, Grp(2, <<NS1>>), End>>),
       Pattern("opp-search", 1, Cmd("opp", "search") \o <<S1, Grp(1, <<Any1>>), End>>),
       \* Task commands
       Pattern("task-note", 2,
           Cmd("task", "note") \o <<S1, Grp(1, <<NS1>>), S1, Grp(2, <<Any1>>), End>>),
       Pattern("task-link", 2,
           Cmd("task", "link") \o <<S1, Grp(1, <<NS1>>), S1, Grp(2, <<NS1>>), End>>),
       \* Analysis commands
       Pattern("analyze", 1, <<Lit("/analyze"), S1, Grp(1, <<Any1>>), End>>),
       Pattern("suggest", 1, <<Lit("/suggest"), Opt(<<S1, Grp(1, <<Any1>>)>>), End>>),
       Pattern("associate", 2,
           <<Lit("/associate"), S1, Grp(1, <<NS1>>), S1, Grp(2, <<NS1>>), End>>),
       \* Database commands
       Pattern("sql", 2, <<Lit("/sql"), S1, QuotedOrAny, End>>),
       Pattern("db-query", 2, Cmd("db", "query") \o <<S1, QuotedOrAny, End>>),
       \* Help and info commands
       Pattern("help", 1, <<Lit("/help"), Opt(<<S1, Grp(1, <<Any0>>)>>), End>>),
       Pattern("commands", 0, <<Lit("/commands"), End>>),
       Pattern("status", 0, <<Lit("/status"), End>>)
    >>

\* The first pattern of the table, from index k on, that matches text, as
\* <<command_name, match.groups()>>; <<>> when none matches.  This is the loop
\* "for command_name, pattern in self.command_patterns.items()" with its
\* return at the first match.
RECURSIVE FirstMatch(_, _, _)
FirstMatch(patterns, text, k) ==
    IF k > Len(patterns) THEN <<>>
    ELSE LET m == re_match(patterns[k], text)
         IN  IF m # <<>> THEN <<patterns[k].name, m[1]>>
             ELSE FirstMatch(patterns, text, k + 1)

\* Every pattern of the table that matches text, in table order.
MatchingRules(patterns, text) ==
    SelectSeq([k \in 1..Len(patterns) |-> patterns[k].name],
              LAMBDA n : \E k \in 1..Len(patterns) :
                            patterns[k].name = n /\ re_match(patterns[k], text) # <<>>)

-----------------------------------------------------------------------------
(* The description tables and the allowed values *)

\* The workflow server's command_descriptions, in the order of the dict.
WorkflowCommandDescriptions ==
    <<
       [cmd |-> "/node-create <type> [name] [x,y]", description |-> "Create a new node"],
       [cmd |-> "/node-delete <identifier>", description |-> "Delete a node"],
       [cmd |-> "/node-rename <old> <new>", description |-> "Rename a node"],
       [cmd |-> "/node-move <node> <x,y>", description |-> "Move a node to position"],
       [cmd |-> "/node-type <node> <type>", description |-> "Change node type"],
       [cmd |-> "/task-create <name> [node] [priority]", description |-> "Create a new task"],
       [cmd |-> "/task-delete <identifier>", description |-> "Delete a task"],
       [cmd |-> "/task-move <task> <target-node>", description |-> "Move task to node"],
       [cmd |-> "/task-advance <task> <target-node>", description |-> "Advance task to node"],
       [cmd |-> "/task-priority <task> <priority>", description |-> "Set task priority"],
       [cmd |-> "/connect <source> <target> [type]", description |-> "Create flowline between nodes"],
       [cmd |-> "/disconnect <source> <target>", description |-> "Remove flowline"],
       [cmd |-> "/flowline-type <source> <target> <type>", description |-> "Change flowline type"],
       [cmd |-> "/disconnect all", description |-> "Remove all flowlines"],
       [cmd |-> "/tag-create <name> [category] [props]", description |-> "Create a new tag"],
       [cmd |-> "/tag-add <tag> <element>", description |-> "Add tag to element"],
       [cmd |-> "/tag-remove <tag> <element>", description |-> "Remove tag from element"],
       [cmd |-> "/tag-list [filter]", description |-> "List tags"],
       [cmd |-> "/workflow-save [filename]", description |-> "Save current workflow"],
       [cmd |-> "/workflow-load <filename>", description |-> "Load workflow file"],
       [cmd |-> "/workflow-export [format]", description |-> "Export workflow"],
       [cmd |-> "/workflow-clear [confirm]", description |-> "Clear current workflow"],
       [cmd |-> "/workflow-status", description |-> "Show workflow status"],
       [cmd |-> "/workflow-stats", description |-> "Show detailed statistics"],
       [cmd |-> "/matrix-enter", description |-> "Enter Eisenhower Matrix mode"],
       [cmd |-> "/matrix-exit", description |-> "Exit matrix mode"],
       [cmd |-> "/matrix-move <task> <quadrant>", description |-> "Move task in matrix"],
       [cmd |-> "/matrix-show [quadrant]", description |-> "Show matrix quadrant"],
       [cmd |-> "/view-zoom <level|in|out|fit>", description |-> "Zoom view"],
       [cmd |-> "/view-center [node]", description |-> "Center view on element"],
       [cmd |-> "/view-focus <element>", description |-> "Focus on element"],
       [cmd |-> "/select <identifier>", description |-> "Select element"],
       [cmd |-> "/select-all [type]", description |-> "Select all elements of type"],
       [cmd |-> "/select-none", description |-> "Clear selection"],
       [cmd |-> "/select-by <criteria>", description |-> "Select by criteria"],
       [cmd |-> "/goto <name>", description |-> "Navigate to element"],
       [cmd |-> "/find <name>", description |-> "Find element by name"],
       [cmd |-> "/next [type]", description |-> "Navigate to next element"],
       [cmd |-> "/previous [type]", description |-> "Navigate to previous element"],
       [cmd |-> "/batch-create <type> <list>", description |-> "Create multiple elements"],
       [cmd |-> "/batch-connect <sources> <targets>", description |-> "Create multiple connections"],
       [cmd |-> "/batch-tag <tag> <elements>", description |-> "Tag multiple elements"]
    >>

\* The chat server's command_descriptions, in the order of the dict.
ChatCommandDescriptions ==
    <<
       [cmd |-> "/note", description |-> "General note operations"],
       [cmd |-> "/note-create &lt;content&gt;", description |-> "Create a new note"],
       [cmd |-> "/note-search &lt;query&gt;", description |-> "Search notes by content"],
       [cmd |-> "/note-find &lt;query&gt;", description |-> "Find notes (alias for search)"],
       [cmd |-> "/note-tag &lt;note_id&gt; &lt;tags&gt;", description |-> "Add tags to a note"],
       [cmd |-> "/note-list [filters]", description |-> "List notes with optional filters"],
       [cmd |-> "/note-link &lt;note_id&gt; &lt;target_id&gt;", description |-> "Link note to opportunity/task"],
       [cmd |-> "/opp", description |-> "General opportunity operations"],
       [cmd |-> "/opp-create &lt;title&gt;", description |-> "Create a new opportunity"],
       [cmd |-> "/opp-list [filters]", description |-> "List opportunities"],
       [cmd |-> "/opp-link &lt;opp_id&gt; &lt;target_id&gt;", description |-> "Link opportunity to task/workflow"],
       [cmd |-> "/opp-search &lt;query&gt;", description |-> "Search opportunities"],
       [cmd |-> "/task-note &lt;task_id&gt; &lt;content&gt;", description |-> "Create note for specific task"],
       [cmd |-> "/task-link &lt;task_id&gt; &lt;note_id&gt;", description |-> "Link task to note"],
       [cmd |-> "/analyze &lt;text&gt;", description |-> "Analyze text for potential associations"],
       [cmd |-> "/suggest [context]", description |-> "Get suggestions for current context"],
       [cmd |-> "/associate &lt;id1&gt; &lt;id2&gt;", description |-> "Create association between items"],
       [cmd |-> "/sql &lt;query&gt;", description |-> "Execute PostgreSQL query directly"],
       [cmd |-> "/db-query &lt;query&gt;", description |-> "Execute PostgreSQL query (alias for /sql)"],
       [cmd |-> "/help [command]", description |-> "Show help information"],
       [cmd |-> "/commands", description |-> "List all available commands"],
       [cmd |-> "/status", description |-> "Show system status"],
       [cmd |-> "/node-create &lt;type&gt; [name] [x,y]", description |-> "Create a new node (process, decision, terminal)"],
       [cmd |-> "/node-delete &lt;identifier&gt;", description |-> "Delete a node by name or ID"],
       [cmd |-> "/node-rename &lt;old&gt; &lt;new&gt;", description |-> "Rename a node"],
       [cmd |-> "/node-move &lt;node&gt; &lt;x,y&gt;", description |-> "Move a node to position"],
       [cmd |-> "/node-type &lt;node&gt; &lt;type&gt;", description |-> "Change node type"],
       [cmd |-> "/task-create &lt;name&gt; [node] [priority]", description |-> "Create a new task"],
       [cmd |-> "/task-delete &lt;identifier&gt;", description |-> "Delete a task"],
       [cmd |-> "/task-move &lt;task&gt; &lt;target-node&gt;", description |-> "Move task to node"],
       [cmd |-> "/task-advance &lt;task&gt; &lt;target-node&gt;", description |-> "Advance task to node"],
       [cmd |-> "/task-priority &lt;task&gt; &lt;priority&gt;", description |-> "Set task priority (low, normal, high, urgent)"],
       [cmd |-> "/connect &lt;source&gt; &lt;target&gt; [type]", description |-> "Create flowline between nodes"],
       [cmd |-> "/disconnect &lt;source&gt; &lt;target&gt;", description |-> "Remove flowline"],
       [cmd |-> "/flowline-type &lt;source&gt; &lt;target&gt; &lt;type&gt;", description |-> "Change flowline type"],
       [cmd |-> "/disconnect all", description |-> "Remove all flowlines"],
       [cmd |-> "/tag-create &lt;name&gt; [category] [props]", description |-> "Create a new tag"],
       [cmd |-> "/tag-add &lt;tag&gt; &lt;element&gt;", description |-> "Add tag to element"],
       [cmd |-> "/tag-remove &lt;tag&gt; &lt;element&gt;", description |-> "Remove tag from element"],
       [cmd |-> "/tag-list [filter]", description |-> "List tags"],
       [cmd |-> "/workflow-save [filename]", description |-> "Save current workflow"],
       [cmd |-> "/workflow-load &lt;filename&gt;", description |-> "Load workflow file"],
       [cmd |-> "/workflow-export [format]", description |-> "Export workflow (json, png, svg, pdf)"],
       [cmd |-> "/workflow-clear [confirm]", description |-> "Clear/reset workflow"],
       [cmd |-> "/workflow-status", description |-> "Show workflow statistics"],
       [cmd |-> "/workflow-stats", description |-> "Show detailed workflow stats"],
       [cmd |-> "/matrix-enter", description |-> "Enter Eisenhower Matrix mode"],
       [cmd |-> "/matrix-exit", description |-> "Exit Eisenhower Matrix mode"],
       [cmd |-> "/matrix-move &lt;task&gt; &lt;quadrant&gt;", description |-> "Move task in matrix"],
       [cmd |-> "/matrix-show [quadrant]", description |-> "Show matrix quadrant"],
       [cmd |-> "/view-zoom &lt;level&gt;", description |-> "Zoom view (in, out, fit, reset)"],
       [cmd |-> "/view-center [node]", description |-> "Center view on node"],
       [cmd |-> "/view-focus &lt;element&gt;", description |-> "Focus on element"],
       [cmd |-> "/select &lt;element&gt;", description |-> "Select element"],
       [cmd |-> "/select-all [type]", description |-> "Select all elements of type"],
       [cmd |-> "/select-none", description |-> "Clear selection"],
       [cmd |-> "/goto &lt;node&gt;", description |-> "Navigate to node"],
       [cmd |-> "/find &lt;name&gt;", description |-> "Find element by name"]
    >>


\* The workflow server's valid_values.
valid_values ==
    [node_types |-> <<"process", "decision", "terminal", "start">>,
     flowline_types |-> <<"sequence", "conditional", "error", "parallel">>,
     task_priorities |-> <<"low", "normal", "high", "urgent">>,
     matrix_quadrants |-> <<"urgent-important", "urgent-not-important",
                            "not-urgent-important", "not-urgent-not-important">>,
     view_zoom |-> <<"in", "out", "fit", "reset">>,
     element_types |-> <<"node", "task", "flowline", "tag">>,
     export_formats |-> <<"json", "png", "svg", "pdf">>]

\* The tables as the two constructors build them.
Registry ==
    [chat |-> [command_patterns |-> ChatCommandPatterns,
               command_descriptions |-> ChatCommandDescriptions],
     workflow |-> [command_patterns |-> WorkflowCommandPatterns,
                   command_descriptions |-> WorkflowCommandDescriptions,
                   valid_values |-> valid_values]]

\* Python's `x in list`.
InList(x, list) == \E k \in 1..Len(list) : list[k] = x

-----------------------------------------------------------------------------
(* The Suggestion Engine: _suggest_similar_command and                        *)
(* _suggest_similar_workflow_command, the same code over each server's own    *)
(* command_descriptions                                                       *)

\* str.lstrip(chars)
RECURSIVE lstrip_chars(_, _)
lstrip_chars(s, chars) ==
    IF s # "" /\ CharAt(s, 1) \in chars
    THEN lstrip_chars(SubSeq(s, 2, Len(s)), chars)
    ELSE s

Max(a, b) == IF a >= b THEN a ELSE b

\* SuggestLoop with the slip of letting a later entry with an equal score
\* replace the best one.
RECURSIVE SuggestLoop_last_tie(_, _, _, _)
SuggestLoop_last_tie(descriptions, unknown, k, best) ==
    IF k > Len(descriptions) THEN best.match
    ELSE
      LET cmd == descriptions[k].cmd
          cmd_clean == lstrip_chars(lower(cmd), {"/"})
          common == Cardinality(CharSet(unknown) \cap CharSet(cmd_clean))
          length == Max(Len(unknown), Len(cmd_clean))
      IN  IF common * best.length >= best.common * length /\ common * 10 > 3 * length
          THEN SuggestLoop_last_tie(descriptions, unknown, k + 1,
                           [match |-> Some(cmd), common |-> common, length |-> length])
          ELSE SuggestLoop_last_tie(descriptions, unknown, k + 1, best)

\* The loop over command_descriptions.keys() from index k on.  best is
\* [match, common, length]: best_match and best_score = common / length.
\* score > best_score and score > 0.3 are compared as fractions.
RECURSIVE SuggestLoop(_, _, _, _)
SuggestLoop(descriptions, unknown, k, best) ==
    IF k > Len(descriptions) THEN best.match
    ELSE
      LET cmd == descriptions[k].cmd
          cmd_clean == lstrip_chars(lower(cmd), {"/"})
          common == Cardinality(CharSet(unknown) \cap CharSet(cmd_clean))
          length == Max(Len(unknown), Len(cmd_clean))
      IN  IF common * best.length > best.common * length /\ common * 10 > 3 * length
          THEN SuggestLoop(descriptions, unknown, k + 1,
                           [match |-> Some(cmd), common |-> common, length |-> length])
          ELSE SuggestLoop(descriptions, unknown, k + 1, best)

SuggestSimilar(descriptions, unknown_command) ==
    SuggestLoop(descriptions, lstrip_chars(lower(unknown_command), {"/"}), 1,
                [match |-> None, common |-> 0, length |-> 1])

suggest_similar_workflow_command(unknown_command) ==
    SuggestSimilar(registry.workflow.command_descriptions, unknown_command)

suggest_similar_command(unknown_command) ==
    SuggestSimilar(registry.chat.command_descriptions, unknown_command)

-----------------------------------------------------------------------------
(* WorkflowCommandServer *)

\* `groups[k] if groups[k] else default`
\* OrElse with the slip of never filling in the default.
OrElse_no_default(v, default) == v

OrElse(v, default) == IF Truthy(v) THEN v ELSE default

\* str.replace(old, new) for one-character old and new
RECURSIVE replace(_, _, _)
replace(s, old, new) ==
    IF s = "" THEN ""
    ELSE (IF CharAt(s, 1) = old THEN new ELSE CharAt(s, 1))
         \o replace(SubSeq(s, 2, Len(s)), old, new)

\* clear_confirmed with the slip of comparing the lower-cased token, as the
\* case-insensitive pattern suggests.
clear_confirmed_any_case(g) ==
    IF Truthy(g[1]) THEN lower(g[1][1]) \in {"yes", "confirm"} ELSE FALSE

\* workflow-clear: groups[0] == 'yes' or groups[0] == 'confirm' if groups[0] else False
clear_confirmed(g) ==
    IF Truthy(g[1]) THEN g[1] = Some("yes") \/ g[1] = Some("confirm") ELSE FALSE

\* node_name with the slip of looking at the quoted alternative only.
node_name_quoted_only(g) == g[2]

\* node-create: name = groups[1] if groups[1] else (groups[2] if groups[2] else None)
node_name(g) == IF Truthy(g[2]) THEN g[2] ELSE OrElse(g[3], None)

\* The command names _parse_workflow_match has a branch for.
WorkflowHandled ==
    {"node-create", "node-delete", "node-rename", "node-move", "task-create",
     "flowline-create", "workflow-save", "workflow-status", "matrix-enter",
     "matrix-exit", "matrix-move", "task-delete", "task-move", "task-advance",
     "task-priority", "flowline-delete", "flowline-type", "disconnect-all",
     "tag-create", "tag-add", "tag-remove", "tag-list", "workflow-load",
     "workflow-export", "workflow-clear", "workflow-stats", "view-zoom",
     "view-center", "view-focus", "select", "select-all", "select-none",
     "select-by", "goto", "find", "next", "previous", "batch-create",
     "batch-connect", "batch-tag"}

\* result['parameters'] of _parse_workflow_match; g is match.groups().
workflow_parameters(command_name, g) ==
    CASE command_name = "node-create" ->
           [type |-> OrElse(g[1], Some("process")),
            name |-> node_name(g),
            x |-> OrElse(g[4], None),
            y |-> OrElse(g[5], None)]
      [] command_name = "node-delete" -> [identifier |-> g[1]]
      [] command_name = "node-rename" -> [old_name |-> g[1], new_name |-> g[2]]
      [] command_name = "node-move" -> [identifier |-> g[1], x |-> g[2], y |-> g[3]]
      [] command_name = "task-create" ->
           [name |-> g[1],
            node |-> OrElse(g[2], None),
            priority |-> OrElse(g[3], Some("normal"))]
      [] command_name = "flowline-create" ->
           [source |-> g[1], target |-> g[2], type |-> OrElse(g[3], Some("sequence"))]
      [] command_name = "workflow-save" -> [filename |-> OrElse(g[1], None)]
      [] command_name \in {"workflow-status", "matrix-enter", "matrix-exit",
                           "disconnect-all", "workflow-stats", "select-none"} ->
           EmptyDict
      [] command_name = "matrix-move" -> [task |-> g[1], quadrant |-> g[2]]
      [] command_name = "task-delete" -> [identifier |-> g[1]]
      [] command_name \in {"task-move", "task-advance"} ->
           [task |-> g[1], target_node |-> g[2]]
      [] command_name = "task-priority" -> [task |-> g[1], priority |-> g[2]]
      [] command_name = "flowline-delete" -> [source |-> g[1], target |-> g[2]]
      [] command_name = "flowline-type" ->
           [source |-> g[1], target |-> g[2], type |-> g[3]]
      [] command_name = "tag-create" ->
           [name |-> g[1],
            category |-> OrElse(g[2], Some("general")),
            properties |-> OrElse(g[3], None)]
      [] command_name \in {"tag-add", "tag-remove"} -> [tag |-> g[1], element |-> g[2]]
      [] command_name = "tag-list" -> [filter |-> OrElse(g[1], None)]
      [] command_name = "workflow-load" -> [filename |-> g[1]]
      [] command_name = "workflow-export" -> [format |-> OrElse(g[1], Some("json"))]
      [] command_name = "workflow-clear" -> [confirmed |-> clear_confirmed(g)]
      [] command_name = "view-zoom" -> [level |-> g[1]]
      [] command_name = "view-center" -> [target |-> OrElse(g[1], None)]
      [] command_name = "view-focus" -> [element |-> g[1]]
      [] command_name = "select" -> [target |-> g[1]]
      [] command_name \in {"select-all", "next", "previous"} ->
           [type |-> OrElse(g[1], None)]
      [] command_name = "select-by" -> [criteria |-> g[1]]
      [] command_name = "goto" -> [target |-> g[1]]
      [] command_name = "find" -> [query |-> g[1]]
      [] command_name = "batch-create" -> [type |-> g[1], data |-> g[2]]
      [] command_name = "batch-connect" -> [sources |-> g[1], targets |-> g[2]]
      [] command_name = "batch-tag" -> [tag |-> g[1], elements |-> g[2]]
      \* "Default case for unhandled commands": parameters stays {}
      [] OTHER -> EmptyDict

\* result['action'] of _parse_workflow_match.
WorkflowActions ==
    [ \* a record cannot be keyed 'node-create': the keys are the names with '_'
     node_create |-> "create_node", node_delete |-> "delete_node",
     node_rename |-> "rename_node", node_move |-> "move_node",
     task_create |-> "create_task", flowline_create |-> "create_flowline",
     workflow_save |-> "save_workflow", workflow_status |-> "show_workflow_status",
     matrix_enter |-> "enter_matrix_mode", matrix_exit |-> "exit_matrix_mode",
     matrix_move |-> "move_task_in_matrix", task_delete |-> "delete_task",
     task_move |-> "move_task", task_advance |-> "advance_task",
     task_priority |-> "set_task_priority", flowline_delete |-> "delete_flowline",
     flowline_type |-> "change_flowline_type",
     disconnect_all |-> "disconnect_all_flowlines", tag_create |-> "create_tag",
     tag_add |-> "add_tag", tag_remove |-> "remove_tag", tag_list |-> "list_tags",
     workflow_load |-> "load_workflow", workflow_export |-> "export_workflow",
     workflow_clear |-> "clear_workflow", workflow_stats |-> "show_workflow_stats",
     view_zoom |-> "zoom_view", view_center |-> "center_view",
     view_focus |-> "focus_element", select |-> "select_element",
     select_all |-> "select_all", select_none |-> "clear_selection",
     select_by |-> "select_by_criteria", goto |-> "navigate_to_element",
     find |-> "find_element", next |-> "navigate_next",
     previous |-> "navigate_previous", batch_create |-> "batch_create_elements",
     batch_connect |-> "batch_connect_elements", batch_tag |-> "batch_tag_elements"]

workflow_action(command_name) ==
    IF command_name \in WorkflowHandled
    THEN WorkflowActions[replace(command_name, "-", "_")]
    ELSE "handle_" \o replace(command_name, "-", "_")

\* _parse_workflow_match(command_name, match, original_input), g = match.groups()
parse_workflow_match(command_name, g, original_input) ==
    [is_workflow_command |-> TRUE,
     command_type |-> Some(command_name),
     parameters |-> workflow_parameters(command_name, g),
     raw_params |-> g,
     action |-> Some(workflow_action(command_name))]

workflow_keywords ==
    <<"node", "task", "flow", "tag", "workflow", "matrix", "select", "view",
      "create", "delete", "move", "connect", "save", "load">>

\* The result for input that does not start with '/'.
workflow_text_result ==
    [is_workflow_command |-> FALSE, type |-> "text", should_process_with_llm |-> TRUE]

\* The result for a '/' input that matches no pattern.
workflow_no_match(text) ==
    IF \E k \in 1..Len(workflow_keywords) : contains(lower(text), workflow_keywords[k])
    THEN [is_workflow_command |-> TRUE,
          type |-> "unknown_workflow_command",
          command |-> split(text)[1],
          error |-> "Unknown workflow command: " \o split(text)[1],
          suggestion |-> suggest_similar_workflow_command(split(text)[1]),
          should_process_with_llm |-> FALSE]
    ELSE [is_workflow_command |-> FALSE,
          type |-> "non_workflow_command",
          should_process_with_llm |-> FALSE]

\* The except branch: str(e) of the AttributeError that None.strip() raises.
NoneStripError == "'NoneType' object has no attribute 'strip'"

\* parse_workflow_command(input_text).  arg is the argument: Some(text) for a
\* string, None for a value that is no string (input_text.strip() raises).
parse_workflow_command(arg) ==
    IF arg = None
    THEN [is_workflow_command |-> FALSE, type |-> "error",
          error |-> NoneStripError, should_process_with_llm |-> TRUE]
    ELSE
      LET text == strip(arg[1])
          m == FirstMatch(registry.workflow.command_patterns, text, 1)
      IN  IF ~startswith(text, "/") THEN workflow_text_result
          ELSE IF m # <<>>
          THEN parse_workflow_match(m[1], m[2], text) @@ [original_input |-> text]
          ELSE workflow_no_match(text)

\* int(s) for a string of decimal digits
DigitValue(c) == CHOOSE d \in 0..9 : CharAt("0123456789", d + 1) = c

RECURSIVE int(_)
int(s) ==
    IF s = "" THEN 0
    ELSE 10 * int(SubSeq(s, 1, Len(s) - 1)) + DigitValue(CharAt(s, Len(s)))

CanvasMax == 2000

\* validation_result as validate_workflow_command creates it
NewValidation == [valid |-> TRUE, errors |-> <<>>, warnings |-> <<>>, suggestions |-> <<>>]

\* WithError with the slip of a forgotten `valid = False`.
WithError_valid_kept(r, message) == [r EXCEPT !.errors = Append(@, message)]

\* errors.append(message); valid = False
WithError(r, message) == [r EXCEPT !.errors = Append(@, message), !.valid = FALSE]

\* WithWarning with the slip of a warning that makes the command invalid.
WithWarning_invalidating(r, message) ==
    [r EXCEPT !.warnings = Append(@, message), !.valid = FALSE]

WithWarning(r, message) == [r EXCEPT !.warnings = Append(@, message)]

\* f"Invalid <what> '<value>'. Valid <plural>: <the allowed values>"
InvalidValueMessage(what, value, plural, allowed) ==
    "Invalid " \o what \o " '" \o value \o "'. Valid " \o plural \o ": "
    \o join(", ", allowed)

\* The position check of node-create: a warning, never an error.
node_create_position(r, parameters) ==
    LET x == Get(parameters, "x")
        y == Get(parameters, "y")
    IN  IF /\ x # None
           /\ y # None
           /\ ~(/\ 0 <= int(x[1]) /\ int(x[1]) <= CanvasMax
                /\ 0 <= int(y[1]) /\ int(y[1]) <= CanvasMax)
        THEN WithWarning(r, "Position outside typical canvas bounds")
        ELSE r

\* The if/elif chain "Validate based on command type" of validate_workflow_command.
validate_workflow_checks(command_type, parameters) ==
    CASE command_type = Some("node-create") ->
           LET node_type == Get(parameters, "type")
           IN  node_create_position(
                 IF Truthy(node_type) /\ ~InList(node_type[1], registry.workflow.valid_values.node_types)
                 THEN WithError(NewValidation,
                                InvalidValueMessage("node type", node_type[1], "types",
                                                    registry.workflow.valid_values.node_types))
                 ELSE NewValidation,
                 parameters)
      [] command_type = Some("flowline-create") ->
           \* parameters.get('type', 'sequence')
           LET flowline_type == IF "type" \in DOMAIN parameters
                                THEN parameters["type"] ELSE Some("sequence")
           IN  IF flowline_type = None
                  \/ ~InList(flowline_type[1], registry.workflow.valid_values.flowline_types)
               THEN WithError(NewValidation,
                              InvalidValueMessage("flowline type",
                                  IF flowline_type = None THEN "None" ELSE flowline_type[1],
                                  "types", registry.workflow.valid_values.flowline_types))
               ELSE NewValidation
      [] command_type = Some("task-priority") ->
           LET priority == Get(parameters, "priority")
           IN  IF Truthy(priority) /\ ~InList(priority[1], registry.workflow.valid_values.task_priorities)
               THEN WithError(NewValidation,
                              InvalidValueMessage("priority", priority[1], "priorities",
                                                  registry.workflow.valid_values.task_priorities))
               ELSE NewValidation
      [] command_type = Some("matrix-move") ->
           LET quadrant == Get(parameters, "quadrant")
           IN  IF Truthy(quadrant) /\ ~InList(quadrant[1], registry.workflow.valid_values.matrix_quadrants)
               THEN WithError(NewValidation,
                              InvalidValueMessage("matrix quadrant", quadrant[1],
                                                  "quadrants", registry.workflow.valid_values.matrix_quadrants))
               ELSE NewValidation
      [] command_type = Some("workflow-clear") ->
           IF ~GetFlag(parameters, "confirmed")
           THEN [WithWarning(NewValidation,
                             "Destructive operation. Add 'yes' or 'confirm' to proceed")
                   EXCEPT !.suggestions = Append(@, "Use: /workflow-clear yes")]
           ELSE NewValidation
      [] OTHER -> NewValidation

\* _generate_workflow_suggestions(command_type, parameters)
generate_workflow_suggestions(command_type, parameters) ==
    CASE command_type = Some("node-create") ->
           (IF ~Truthy(Get(parameters, "name"))
            THEN <<"Consider adding a descriptive name in quotes">> ELSE <<>>)
           \o
           (IF ~Truthy(Get(parameters, "x")) \/ ~Truthy(Get(parameters, "y"))
            THEN <<"Add x,y coordinates to position the node precisely">> ELSE <<>>)
      [] command_type = Some("flowline-create") ->
           IF Get(parameters, "type") = Some("sequence")
           THEN <<"Consider using 'conditional' for decision-based flows">> ELSE <<>>
      [] command_type = Some("task-create") ->
           IF ~Truthy(Get(parameters, "node"))
           THEN <<"Specify target node to automatically associate the task">> ELSE <<>>
      [] OTHER -> <<>>

\* "Add general suggestions for improvement": a valid result has its
\* suggestions list replaced by the generated one.
with_workflow_suggestions(r, command_type, parameters) ==
    IF r.valid
    THEN [r EXCEPT !.suggestions = generate_workflow_suggestions(command_type, parameters)]
    ELSE r

\* command_data.get('parameters', {})
ParametersOf(command_data) ==
    IF "parameters" \in DOMAIN command_data THEN command_data.parameters ELSE EmptyDict

\* validate_workflow_command(command_data)
validate_workflow_command(command_data) ==
    IF ~GetFlag(command_data, "is_workflow_command")
    THEN [valid |-> TRUE, type |-> "non_workflow", action |-> "pass_through"]
    ELSE
      LET command_type == Get(command_data, "command_type")
          parameters == ParametersOf(command_data)
      IN  with_workflow_suggestions(validate_workflow_checks(command_type, parameters),
                                    command_type, parameters)

\* validation_result.get(key, []) for the list-valued keys
GetList(d, k) == IF k \in DOMAIN d THEN d[k] ELSE <<>>

\* The command_data that execute_workflow_command hands to the WorkflowBridge.
workflow_envelope(command_data) ==
    [action |-> Get(command_data, "action"),
     parameters |-> ParametersOf(command_data),
     command_type |-> Get(command_data, "command_type"),
     original_input |-> IF "original_input" \in DOMAIN command_data
                        THEN command_data.original_input ELSE ""]

\* execute_workflow_command with the slip of not looking at the verdict of the
\* validation.
execute_workflow_command_any_verdict(command_data) ==
    IF ~GetFlag(command_data, "is_workflow_command")
    THEN [status |-> "error", error |-> "Not a workflow command"]
    ELSE
      LET validation_result == validate_workflow_command(command_data)
          command_type == Get(command_data, "command_type")
      IN  [status |-> "ready_for_execution",
           command_data |-> workflow_envelope(command_data),
           validation |-> validation_result,
           message |-> "Executing "
                       \o (IF command_type = None THEN "workflow command"
                           ELSE command_type[1])
                       \o "..."]

\* execute_workflow_command(command_data)
execute_workflow_command(command_data) ==
    IF ~GetFlag(command_data, "is_workflow_command")
    THEN [status |-> "error", error |-> "Not a workflow command"]
    ELSE
      LET validation_result == validate_workflow_command(command_data)
          command_type == Get(command_data, "command_type")
      IN  IF ~GetFlag(validation_result, "valid")
          THEN [status |-> "error",
                error |-> "Command validation failed",
                errors |-> GetList(validation_result, "errors"),
                suggestions |-> GetList(validation_result, "suggestions")]
          ELSE [status |-> "ready_for_execution",
                command_data |-> workflow_envelope(command_data),
                validation |-> validation_result,
                message |-> "Executing "
                            \o (IF command_type = None THEN "workflow command"
                                ELSE command_type[1])
                            \o "..."]

\* list(command_descriptions.keys())
Keys(descriptions) == [k \in 1..Len(descriptions) |-> descriptions[k].cmd]

\* The matches of a help query: the descriptions whose command holds the query
Matches(descriptions, command) ==
    LET hit == SelectSeq(descriptions, LAMBDA d : contains(lower(d.cmd), lower(command)))
    IN  [k \in 1..Len(hit) |-> [command |-> hit[k].cmd, description |-> hit[k].description]]

\* The example list of the first key that the query holds, [] when there is none
ExamplesFor(examples, command) ==
    LET hit == SelectSeq(examples, LAMBDA e : contains(lower(command), e.key))
    IN  IF hit = <<>> THEN <<>> ELSE hit[1].list

\* _get_workflow_command_examples(command)
get_workflow_command_examples(command) ==
    ExamplesFor(
      << [key |-> "node",
          list |-> <<"/node-create process \"User Registration\"",
                     "/node-create decision \"Age Check\" 300,200",
                     "/node-delete \"User Registration\"",
                     "/node-rename \"Old Name\" \"New Name\"">>],
         [key |-> "task",
          list |-> <<"/task-create \"Validate email\" \"User Registration\"",
                     "/task-move \"Validate email\" \"Email Processing\"",
                     "/task-priority \"Urgent Task\" high">>],
         [key |-> "flowline",
          list |-> <<"/connect \"Registration\" \"Validation\" sequence",
                     "/connect \"Age Check\" \"Adult Process\" conditional",
                     "/disconnect \"Old Connection\" \"Target\"">>],
         [key |-> "workflow",
          list |-> <<"/workflow-save \"user-registration-v1\"",
                     "/workflow-status",
                     "/workflow-clear yes">>],
         [key |-> "matrix",
          list |-> <<"/matrix-enter",
                     "/matrix-move \"Important Task\" urgent-important",
                     "/matrix-show urgent-not-important">>] >>,
      command)

\* generate_workflow_help(command).  arg is None for the default.
generate_workflow_help(arg) ==
    LET descriptions == registry.workflow.command_descriptions
        \* [cmd for cmd in command_descriptions.keys() if any(x in cmd for x in words)]
        With(words) ==
            SelectSeq(Keys(descriptions), LAMBDA cmd : \E x \in words : contains(cmd, x))
    IN  IF Truthy(arg)
        THEN LET command == lstrip_chars(arg[1], {"/"})
                 matches == Matches(descriptions, command)
             IN  IF matches # <<>>
                 THEN [type |-> "specific_workflow_help",
                       query |-> command,
                       matches |-> matches,
                       examples |-> get_workflow_command_examples(command)]
                 ELSE [type |-> "workflow_command_not_found",
                       query |-> command,
                       suggestion |-> suggest_similar_workflow_command("/" \o command),
                       all_commands |-> Keys(descriptions)]
        ELSE [type |-> "general_workflow_help",
              categories |->
                  ("Node Commands" :> With({"node"})) @@
                   ("Task Commands" :> With({"task"})) @@
                   ("Flowline Commands" :> With({"flowline", "connect", "disconnect"})) @@
                   ("Tag Commands" :> With({"tag"})) @@
                   ("Workflow Commands" :> With({"workflow"})) @@
                   ("Matrix Commands" :> With({"matrix"})) @@
                   ("View Commands" :> With({"view"})) @@
                   ("Selection Commands" :> With({"select"})) @@
                   ("Navigation Commands" :> With({"goto", "find", "next", "previous"})) @@
                   ("Batch Commands" :> With({"batch"})),
              descriptions |-> descriptions,
              getting_started |-> <<"/node-create process \"My Process\"",
                                    "/task-create \"My Task\" \"My Process\"",
                                    "/workflow-save \"my-workflow\"",
                                    "/workflow-status">>]

-----------------------------------------------------------------------------
(* ChatCommandServer *)

\* str.split(sep) for a one-character sep
RECURSIVE split_on(_, _)
split_on(s, sep) ==
    IF \A i \in 1..Len(s) : CharAt(s, i) # sep THEN <<s>>
    ELSE LET i == CHOOSE j \in 1..Len(s) :
                      CharAt(s, j) = sep /\ \A k \in 1..(j - 1) : CharAt(s, k) # sep
         IN  <<SubSeq(s, 1, i - 1)>> \o split_on(SubSeq(s, i + 1, Len(s)), sep)

\* str.split(sep, 1): s cut at the first occurrence of sep, or <<s>>
split_once(s, sep) ==
    IF ~contains(s, sep) THEN <<s>>
    ELSE LET i == CHOOSE j \in 1..Len(s) :
                      /\ SubSeq(s, j, j + Len(sep) - 1) = sep
                      /\ \A k \in 1..(j - 1) : SubSeq(s, k, k + Len(sep) - 1) # sep
         IN  <<SubSeq(s, 1, i - 1), SubSeq(s, i + Len(sep), Len(s))>>

RECURSIVE rstrip_chars(_, _)
rstrip_chars(s, chars) ==
    IF s # "" /\ CharAt(s, Len(s)) \in chars
    THEN rstrip_chars(SubSeq(s, 1, Len(s) - 1), chars)
    ELSE s

\* str.strip(chars)
strip_chars(s, chars) == rstrip_chars(lstrip_chars(s, chars), chars)

\* One optional entry of a dict: {key: value[1]} when value is present.
Entry(key, value) == IF value = None THEN EmptyDict ELSE (key :> value[1])

\* _parse_list_filters(filter_string)
parse_list_filters(filter_string) ==
    IF filter_string = "" THEN EmptyDict
    ELSE
      LET tag_match == re_search(<<LitCase("tag:"), Grp(1, <<NS1>>)>>, filter_string, 1)
          opp_match == re_search(<<LitCase("opp:"), Grp(1, <<NS1>>)>>, filter_string, 1)
          task_match == re_search(<<LitCase("task:"), Grp(1, <<NS1>>)>>, filter_string, 1)
          limit_match == re_search(<<LitCase("limit:"), Grp(1, <<D1>>)>>, filter_string, 1)
      IN  Entry("tags", IF tag_match = None THEN None
                        ELSE Some(split_on(tag_match[1], ",")))
          @@ Entry("opportunity_id", IF opp_match = None THEN None ELSE Some(opp_match))
          @@ Entry("task_id", IF task_match = None THEN None ELSE Some(task_match))
          @@ Entry("limit", IF limit_match = None THEN None
                            ELSE Some(int(limit_match[1])))

\* The command names _parse_command_match has a branch for.
ChatHandled ==
    {"note", "note-create", "note-search", "note-find", "opp-search", "note-tag",
     "note-list", "note-link", "opp-create", "opp-list", "task-note", "analyze",
     "help", "commands", "status"}

\* opp-create: the title and the optional description after ' - '
opp_create_parameters(g) ==
    LET content == OrElse(g[1], Some(""))[1]
        parts == split_once(content, " - ")
    IN  [title |-> Some(strip_chars(parts[1], {"\"", "'"})),
         description |-> Some(IF Len(parts) > 1 THEN parts[2] ELSE "")]

\* The list commands: the optional argument parsed as a filter string
list_parameters(g) ==
    [filters |-> parse_list_filters(OrElse(g[1], Some(""))[1])]

\* result['parameters'] of _parse_command_match; g is match.groups().
chat_parameters(command_name, g) ==
    CASE command_name \in {"note", "note-create"} -> [content |-> OrElse(g[1], Some(""))]
      [] command_name \in {"note-search", "note-find", "opp-search"} ->
           [query |-> OrElse(g[1], Some(""))]
      [] command_name = "note-tag" -> [note_id |-> g[1], tags |-> split(g[2][1])]
      [] command_name \in {"note-list", "opp-list"} -> list_parameters(g)
      [] command_name = "note-link" -> [note_id |-> g[1], target_id |-> g[2]]
      [] command_name = "opp-create" -> opp_create_parameters(g)
      [] command_name = "task-note" -> [task_id |-> g[1], content |-> g[2]]
      [] command_name = "analyze" -> [text |-> OrElse(g[1], Some(""))]
      [] command_name = "help" -> [topic |-> OrElse(g[1], None)]
      \* commands, status, and every name without a branch: parameters stays {}
      [] OTHER -> EmptyDict

\* result['action'] of _parse_command_match, for the names with a branch.
chat_action(command_name) ==
    CASE command_name \in {"note", "note-create"} -> "create_note"
      [] command_name \in {"note-search", "note-find", "opp-search"} ->
           IF contains(command_name, "note") THEN "search_notes"
           ELSE "search_opportunities"
      [] command_name = "note-tag" -> "add_tags_to_note"
      [] command_name = "note-list" -> "list_notes"
      [] command_name = "note-link" -> "link_note"
      [] command_name = "opp-create" -> "create_opportunity"
      [] command_name = "opp-list" -> "list_opportunities"
      [] command_name = "task-note" -> "create_task_note"
      [] command_name = "analyze" -> "analyze_text"
      [] command_name = "help" -> "show_help"
      [] command_name = "commands" -> "list_commands"
      [] command_name = "status" -> "show_status"

\* _parse_command_match(command_name, match, original_input), g = match.groups().
\* A name without a branch gets no 'action' key.
parse_command_match(command_name, g, original_input) ==
    [is_command |-> TRUE,
     command_type |-> Some(command_name),
     parameters |-> chat_parameters(command_name, g),
     raw_params |-> g]
    @@ (IF command_name \in ChatHandled
        THEN [action |-> Some(chat_action(command_name))]
        ELSE EmptyDict)

\* The result for input that does not start with '/'.
chat_text_result(text) ==
    [is_command |-> FALSE, type |-> "text", content |-> text,
     should_process_with_llm |-> TRUE]

\* chat_no_match with the slip of reporting the whole input as the command.
chat_no_match_whole_input(text) ==
    [is_command |-> TRUE,
     type |-> "unknown_command",
     command |-> text,
     error |-> "Unknown command: " \o text,
     suggestion |-> suggest_similar_command(text),
     should_process_with_llm |-> FALSE]

\* "Unknown command": the result for a '/' input that matches no pattern.
chat_no_match(text) ==
    [is_command |-> TRUE,
     type |-> "unknown_command",
     command |-> split(text)[1],
     error |-> "Unknown command: " \o split(text)[1],
     suggestion |-> suggest_similar_command(split(text)[1]),
     should_process_with_llm |-> FALSE]

\* parse_chat_input with the slip of an except branch that keeps the input
\* from the language model.
parse_chat_input_error_kept(arg) ==
    IF arg = None
    THEN [is_command |-> FALSE, type |-> "error",
          error |-> NoneStripError, should_process_with_llm |-> FALSE]
    ELSE
      LET text == strip(arg[1])
          m == FirstMatch(registry.chat.command_patterns, text, 1)
      IN  IF ~startswith(text, "/") THEN chat_text_result(text)
          ELSE IF m # <<>>
          THEN parse_command_match(m[1], m[2], text) @@ [original_input |-> text]
          ELSE chat_no_match(text)

\* parse_chat_input(input_text).  arg is the argument: Some(text) for a string,
\* None for a value that is no string (input_text.strip() raises).
parse_chat_input(arg) ==
    IF arg = None
    THEN [is_command |-> FALSE, type |-> "error",
          error |-> NoneStripError, should_process_with_llm |-> TRUE]
    ELSE
      LET text == strip(arg[1])
          m == FirstMatch(registry.chat.command_patterns, text, 1)
      IN  IF ~startswith(text, "/") THEN chat_text_result(text)
          ELSE IF m # <<>>
          THEN parse_command_match(m[1], m[2], text) @@ [original_input |-> text]
          ELSE chat_no_match(text)

NoteMaxLen == 10000

\* too_short with the slip of measuring the value as it is, not stripped.
too_short_unstripped(value, minimum) == ~Truthy(value) \/ Len(value[1]) < minimum

\* `not value or len(value.strip()) < minimum`
too_short(value, minimum) == ~Truthy(value) \/ Len(strip(value[1])) < minimum

\* The if/elif chain "Validate based on command type" of validate_command.
validate_chat_checks(command_type, parameters) ==
    CASE command_type \in {Some("note-create"), Some("note")} ->
           LET content == Get(parameters, "content")
               checked == IF too_short(content, 3)
                          THEN WithError(NewValidation,
                                         "Note content too short (minimum 3 characters)")
                          ELSE NewValidation
           IN  IF Len(content[1]) > NoteMaxLen
               THEN WithWarning(checked, "Note content is very long (>10k chars)")
               ELSE checked
      [] command_type \in {Some("note-search"), Some("note-find"), Some("opp-search")} ->
           LET query == Get(parameters, "query")
           IN  IF too_short(query, 2)
               THEN WithError(NewValidation,
                              "Search query too short (minimum 2 characters)")
               ELSE NewValidation
      [] command_type = Some("opp-create") ->
           LET title == Get(parameters, "title")
           IN  IF too_short(title, 3)
               THEN WithError(NewValidation,
                              "Opportunity title too short (minimum 3 characters)")
               ELSE NewValidation
      [] command_type \in {Some("note-link"), Some("opp-link"), Some("task-link"),
                           Some("associate")} ->
           \* parameters.get('id1') or parameters.get('source_id'), and id2 alike
           LET id1 == IF Truthy(Get(parameters, "id1")) THEN Get(parameters, "id1")
                      ELSE Get(parameters, "source_id")
               id2 == IF Truthy(Get(parameters, "id2")) THEN Get(parameters, "id2")
                      ELSE Get(parameters, "target_id")
           IN  IF ~Truthy(id1) \/ ~Truthy(id2)
               THEN WithError(NewValidation, "Both IDs required for linking")
               ELSE NewValidation
      [] OTHER -> NewValidation

\* _generate_command_suggestions(command_type, parameters)
generate_command_suggestions(command_type, parameters) ==
    CASE command_type \in {Some("note-create"), Some("note")} ->
           LET content == IF "content" \in DOMAIN parameters
                          THEN parameters.content[1] ELSE ""
           IN  (IF content # "" /\ Len(content) < 20
                THEN <<"Consider adding more detail to your note">> ELSE <<>>)
               \o
               (IF ~\E ch \in {".", "!", "?"} : contains(content, ch)
                THEN <<"Consider ending with proper punctuation">> ELSE <<>>)
      [] command_type = Some("opp-create") ->
           LET title == IF "title" \in DOMAIN parameters
                        THEN parameters.title[1] ELSE ""
           IN  (IF ~Truthy(Get(parameters, "description"))
                THEN <<"Consider adding a description with ' - description'">> ELSE <<>>)
               \o
               (IF title # "" /\ Len(split(title)) < 2
                THEN <<"Consider using a more descriptive title">> ELSE <<>>)
      [] OTHER -> <<>>

\* str(e) of the TypeError that len(None) raises
NoneLenError == "object of type 'NoneType' has no len()"

\* The validation raises: a note without content reaches len(content).
validate_raises(command_type, parameters) ==
    /\ command_type \in {Some("note-create"), Some("note")}
    /\ Get(parameters, "content") = None

\* validate_command(command_data)
validate_command(command_data) ==
    IF ~GetFlag(command_data, "is_command")
    THEN [valid |-> TRUE, type |-> "text", action |-> "process_with_llm"]
    ELSE IF validate_raises(Get(command_data, "command_type"),
                            ParametersOf(command_data))
    THEN [valid |-> FALSE, errors |-> <<NoneLenError>>]
    ELSE
      LET command_type == Get(command_data, "command_type")
          parameters == ParametersOf(command_data)
          r == validate_chat_checks(command_type, parameters)
      IN  IF r.valid
          THEN [r EXCEPT !.suggestions =
                             generate_command_suggestions(command_type, parameters)]
          ELSE r

\* The printable ASCII characters in the order of their code points (the
\* grave accent, which no command holds, is left out).
AsciiOrder ==
    " !\"#$%&'()*+,-./0123456789:;<=>?@ABCDEFGHIJKLMNOPQRSTUVWXYZ[\\]^_abcdefghijklmnopqrstuvwxyz{|}~"

\* The rank of c in the order of the code points: Ord(c) < Ord(d) exactly
\* when ord(c) < ord(d).
Ord(c) == CHOOSE i \in 1..Len(AsciiOrder) : CharAt(AsciiOrder, i) = c

\* str_lt with the slip of sorting in descending order.
str_gt(a, b) ==
    \E i \in 1..(Len(b) + 1) :
        /\ Len(a) >= i - 1
        /\ SubSeq(a, 1, i - 1) = SubSeq(b, 1, i - 1)
        /\ \/ i > Len(b) /\ i <= Len(a)
           \/ i <= Len(a) /\ i <= Len(b) /\ Ord(CharAt(b, i)) < Ord(CharAt(a, i))

\* Python's a < b for strings: the comparison the sort of the suggestions uses.
str_lt(a, b) ==
    \E i \in 1..(Len(a) + 1) :
        /\ Len(b) >= i - 1
        /\ SubSeq(a, 1, i - 1) = SubSeq(b, 1, i - 1)
        /\ \/ i > Len(a) /\ i <= Len(b)
           \/ i <= Len(a) /\ i <= Len(b) /\ Ord(CharAt(a, i)) < Ord(CharAt(b, i))

\* Min with the slip of a limit that is never applied.
Min_unlimited(a, b) == b

Min(a, b) == IF a <= b THEN a ELSE b

MaxCompletions == 10

\* suggest_command_completion(partial_input).  The sort key is (not
\* startswith, command); every suggestion has the prefix, so the sort is by
\* command.
suggest_command_completion(arg) ==
    IF arg = None
    THEN [suggestions |-> <<>>,
          error |-> "'NoneType' object has no attribute 'startswith'"]
    ELSE
      LET partial_input == arg[1]
          partial_command == lower(partial_input)
          matching == SelectSeq(registry.chat.command_descriptions,
                                LAMBDA d : startswith(lower(d.cmd), partial_command))
          suggestions ==
              [k \in 1..Len(matching) |->
                  [command |-> matching[k].cmd,
                   description |-> matching[k].description,
                   completion |->
                       IF Len(matching[k].cmd) > Len(partial_input)
                       THEN SubSeq(matching[k].cmd, Len(partial_input) + 1,
                                   Len(matching[k].cmd))
                       ELSE ""]]
          sorted == SortSeq(suggestions, LAMBDA x, y : str_lt(x.command, y.command))
      IN  IF ~startswith(partial_input, "/")
          THEN [suggestions |-> <<>>, type |-> "not_command"]
          ELSE [suggestions |-> SubSeq(sorted, 1, Min(MaxCompletions, Len(sorted))),
                partial_input |-> partial_input,
                has_suggestions |-> Len(suggestions) > 0]

\* _get_command_examples(command)
get_command_examples(command) ==
    ExamplesFor(
      << [key |-> "note",
          list |-> <<"/note \"Meeting with client about website redesign\"",
                     "/note-create \"Remember to follow up on the proposal\"">>],
         [key |-> "note-search",
          list |-> <<"/note-search \"website redesign\"",
                     "/note-find \"client meeting\"">>],
         [key |-> "opp",
          list |-> <<"/opp-create \"Website Redesign Project - Complete overhaul of company site\"",
                     "/opp-list tag:web,design">>],
         [key |-> "help",
          list |-> <<"/help note", "/help opp-create", "/commands">>],
         [key |-> "sql",
          list |-> <<"/sql \"SELECT * FROM workflows LIMIT 5\"",
                     "/sql \"SELECT COUNT(*) FROM tasks WHERE status = 'completed'\"",
                     "/sql \"SELECT table_name FROM information_schema.tables WHERE table_schema = 'public'\"">>],
         [key |-> "db",
          list |-> <<"/db-query \"SELECT * FROM opportunities ORDER BY created_at DESC LIMIT 10\"",
                     "/db-query \"SELECT column_name, data_type FROM information_schema.columns WHERE table_name = 'workflows'\"",
                     "/db-query \"SELECT status, COUNT(*) as count FROM tasks GROUP BY status\"">>] >>,
      command)

\* generate_command_help(command).  arg is None for the default.
generate_command_help(arg) ==
    LET descriptions == registry.chat.command_descriptions
        \* [cmd for cmd in command_descriptions.keys() if cmd.startswith(prefixes)]
        Starting(prefixes) ==
            SelectSeq(Keys(descriptions), LAMBDA cmd : \E x \in prefixes : startswith(cmd, x))
    IN  IF Truthy(arg)
        THEN LET command == lstrip_chars(arg[1], {"/"})
                 matches == Matches(descriptions, command)
             IN  IF matches # <<>>
                 THEN [type |-> "specific_help",
                       query |-> command,
                       matches |-> matches,
                       examples |-> get_command_examples(command)]
                 ELSE [type |-> "command_not_found",
                       query |-> command,
                       suggestion |-> suggest_similar_command("/" \o command),
                       all_commands |-> Keys(descriptions)]
        ELSE [type |-> "general_help",
              categories |->
                  ("Note Commands" :> Starting({"/note"})) @@
                   ("Opportunity Commands" :> Starting({"/opp"})) @@
                   ("Node Commands" :> Starting({"/node"})) @@
                   ("Task Commands" :> Starting({"/task"})) @@
                   ("Flowline Commands" :> Starting({"/connect", "/disconnect", "/flowline"})) @@
                   ("Tag Commands" :> Starting({"/tag"})) @@
                   ("Workflow Commands" :> Starting({"/workflow"})) @@
                   ("Matrix Commands" :> Starting({"/matrix"})) @@
                   ("View & Navigation" :> Starting({"/view", "/select", "/goto", "/find"})) @@
                   ("Analysis Commands" :> Starting({"/analyze", "/suggest", "/associate"})) @@
                   ("Database Commands" :> Starting({"/sql", "/db"})) @@
                   ("General Commands" :> Starting({"/help", "/commands", "/status"})),
              descriptions |-> descriptions,
              getting_started |-> <<"/node-create process \"Start Process\"",
                                    "/task-create \"My Task\" \"Start Process\"",
                                    "/note-create \"Meeting notes\"",
                                    "/sql \"SELECT * FROM workflows LIMIT 5\"",
                                    "/workflow-status",
                                    "/help sql">>]

-----------------------------------------------------------------------------
(* extract_context_from_input and its helpers.  Scores and confidences are  *)
(* in tenths: 0.3 is 3.  Every sum of the weights the code can form, added  *)
(* as floats in the order of the code, compares with 0.5, 0.7 and 1.0 as    *)
(* the sum of the tenths compares with 5, 7 and 10.                         *)

\* any(word in text.lower() for word in words)
any_in(words, text) == \E k \in 1..Len(words) : contains(lower(text), words[k])

\* _extract_entities(text): the identifiers, pattern by pattern, then the dates
extract_entities(text) ==
    LET \* \b(<prefix>\w+)\b
        IdPattern(prefix) == <<Wb, Grp(1, <<Lit(prefix), W1>>), Wb>>
        \* \b(\d{1,2}[/-]\d{1,2}[/-]\d{2,4})\b
        date_pattern ==
            <<Wb,
              Grp(1, <<Cls("d", 1, FALSE), Cls("d", 0, FALSE), Cls("/", 1, FALSE),
                       Cls("d", 1, FALSE), Cls("d", 0, FALSE), Cls("/", 1, FALSE),
                       Cls("d", 1, FALSE), Cls("d", 1, FALSE), Cls("d", 0, FALSE),
                       Cls("d", 0, FALSE)>>),
              Wb>>
        Entities(pattern, type, confidence) ==
            LET matches == re_findall(pattern, text, 1)
            IN  [k \in 1..Len(matches) |->
                    [text |-> matches[k], type |-> type, confidence |-> confidence]]
    IN  Entities(IdPattern("opp-"), "opportunity_id", 9)
        \o Entities(IdPattern("task-"), "task_id", 9)
        \o Entities(IdPattern("note-"), "note_id", 9)
        \o Entities(IdPattern("workflow-"), "workflow_id", 9)
        \o Entities(date_pattern, "date", 8)

intent_keywords ==
    << [intent |-> "create", keywords |-> <<"create", "add", "new", "make">>],
       [intent |-> "search", keywords |-> <<"find", "search", "look for", "locate">>],
       [intent |-> "update", keywords |-> <<"update", "modify", "change", "edit">>],
       [intent |-> "delete", keywords |-> <<"delete", "remove", "drop">>],
       [intent |-> "list", keywords |-> <<"list", "show all", "display">>],
       [intent |-> "link", keywords |-> <<"link", "connect", "associate", "relate">>],
       [intent |-> "question", keywords |-> <<"what", "how", "why", "when", "where", "?">>] >>

\* _classify_intent(text)
classify_intent(text) ==
    LET hits == {k \in 1..Len(intent_keywords) : any_in(intent_keywords[k].keywords, text)}
    IN  IF hits = {} THEN "unknown"
        ELSE intent_keywords[CHOOSE k \in hits : \A l \in hits : k <= l].intent

topic_keywords ==
    << [topic |-> "meeting", keywords |-> <<"meeting", "call", "discussion">>],
       [topic |-> "deadline", keywords |-> <<"deadline", "due", "urgent">>],
       [topic |-> "project", keywords |-> <<"project", "initiative", "campaign">>],
       [topic |-> "client", keywords |-> <<"client", "customer", "stakeholder">>],
       [topic |-> "design", keywords |-> <<"design", "ui", "ux", "layout">>],
       [topic |-> "development", keywords |-> <<"development", "coding", "programming">>],
       [topic |-> "testing", keywords |-> <<"test", "testing", "qa", "quality">>],
       [topic |-> "deployment", keywords |-> <<"deploy", "deployment", "release">>] >>

\* _extract_topics(text)
extract_topics(text) ==
    LET \* \b[a-zA-Z]{3,}\b
        word_pattern ==
            <<Wb, Grp(1, <<Cls("a", 1, FALSE), Cls("a", 1, FALSE), Cls("a", 1, TRUE)>>), Wb>>
        words == re_findall(word_pattern, lower(text), 1)
        hit == SelectSeq(topic_keywords,
                   LAMBDA t : \E j \in 1..Len(t.keywords) : InList(t.keywords[j], words))
    IN  [k \in 1..Len(hit) |-> hit[k].topic]

\* _extract_references(text): the @ mentions, then the hashtags
extract_references(text) ==
    re_findall(<<LitCase("@"), Grp(1, <<W1>>)>>, text, 1)
        \o re_findall(<<LitCase("#"), Grp(1, <<W1>>)>>, text, 1)

\* _analyze_sentiment(text)
analyze_sentiment(text) ==
    LET positive_words == <<"good", "great", "excellent", "success", "complete", "finished">>
        negative_words == <<"problem", "issue", "error", "failed", "urgent", "blocked">>
        \* sum(1 for word in words if word in text_lower)
        CountIn(words) ==
            Cardinality({k \in 1..Len(words) : contains(lower(text), words[k])})
        positive_count == CountIn(positive_words)
        negative_count == CountIn(negative_words)
    IN  IF positive_count > negative_count THEN "positive"
        ELSE IF negative_count > positive_count THEN "negative"
        ELSE "neutral"

SubstantialLen == 50

\* The indicators of _assess_note_worthiness in the order of the code, each
\* with its weight in tenths and whether it fired.
note_indicators(text, context) ==
    LET action_words == <<"todo", "need to", "should", "must", "action", "task">>
        decision_words == <<"decided", "agreed", "concluded", "result">>
    IN
    << [reason |-> "substantial_content", weight |-> 3,
        fired |-> Len(text) > SubstantialLen],
       [reason |-> "actionable_content", weight |-> 4,
        fired |-> any_in(action_words, text)],
       [reason |-> "contains_entities", weight |-> 2,
        fired |-> context.entities # <<>>],
       [reason |-> "time_sensitive", weight |-> 3,
        fired |-> InList("deadline", context.topics)],
       [reason |-> "contains_decisions", weight |-> 3,
        fired |-> any_in(decision_words, text)] >>

RECURSIVE SumWeights(_)
SumWeights(indicators) ==
    IF indicators = <<>> THEN 0
    ELSE Head(indicators).weight + SumWeights(Tail(indicators))

\* worthy with the slip of counting a score of exactly 0.5 as worthy.
worthy_from_half(score) == score >= 5

\* score > 0.5
worthy(score) == score > 5

\* _assess_note_worthiness(text, context)
assess_note_worthiness(text, context) ==
    LET fired == SelectSeq(note_indicators(text, context), LAMBDA x : x.fired)
        score == SumWeights(fired)
    IN  [score |-> Min(score, 10),
         worthy |-> worthy(score),
         reasons |-> [k \in 1..Len(fired) |-> fired[k].reason]]

AnalysisLen == 100
MaxCommandHints == 3

\* _suggest_commands_for_input(text, context)
suggest_commands_for_input(text, context) ==
    LET hints ==
          << [command |-> "/note-create",
              reason |-> "Content appears worth saving as a note",
              holds |-> context.note_worthy.worthy],
             [command |-> "/opp-create",
              reason |-> "Content mentions projects or initiatives",
              holds |-> \/ InList("project", context.topics)
                        \/ any_in(<<"project", "initiative">>, text)],
             [command |-> "/note-search",
              reason |-> "Appears to be asking a question",
              holds |-> context.intent = "question" \/ contains(text, "?")],
             [command |-> "/analyze",
              reason |-> "Complex content could benefit from analysis",
              holds |-> Len(text) > AnalysisLen /\ context.entities # <<>>] >>
        suggestions == SelectSeq(hints, LAMBDA x : x.holds)
    IN  [k \in 1..Min(MaxCommandHints, Len(suggestions)) |->
            [command |-> suggestions[k].command, reason |-> suggestions[k].reason]]

\* The results extract_context_from_input(input_text) can return, with
\* conversation_history left at its default None.  For None re.findall raises
\* a TypeError whose wording depends on the version of the interpreter.
extract_context_from_input(arg) ==
    IF arg = None
    THEN {[entities |-> <<>>, intent |-> "unknown", topics |-> <<>>, error |-> e] :
             e \in {"expected string or bytes-like object",
                    "expected string or bytes-like object, got 'NoneType'"}}
    ELSE
      LET text == arg[1]
          context == [entities |-> extract_entities(text),
                      intent |-> classify_intent(text),
                      topics |-> extract_topics(text),
                      references |-> extract_references(text),
                      sentiment |-> analyze_sentiment(text)]
          noted == context @@ [note_worthy |-> assess_note_worthiness(text, context)]
      IN  {noted @@ [suggested_commands |-> suggest_commands_for_input(text, noted)]}

Range(seq) == {seq[k] : k \in 1..Len(seq)}

\* At most this many whitespace characters are put around an input.
MaxPad == 1

RECURSIVE Spaces(_)
Spaces(n) == IF n = 0 THEN "" ELSE " " \o Spaces(n - 1)

Pads == {Spaces(n) : n \in 0..MaxPad}

\* "" and each word of ws after a space: an optional trailing argument
OptionalArg(ws) == {""} \cup {" " \o w : w \in ws}

NodeTypeWords == Range(valid_values.node_types) \cup {"subprocess"}
PriorityWords == Range(valid_values.task_priorities) \cup {"extreme", "HIGH"}
FlowlineTypeWords == Range(valid_values.flowline_types) \cup {"dashed"}
QuadrantWords == Range(valid_values.matrix_quadrants) \cup {"urgent-later", "urgent"}
FormatWords == Range(valid_values.export_formats) \cup {"gif"}

\* The commands whose arguments are checked against valid_values, with every
\* allowed value and some that are not allowed.
EnumInputs ==
    {"/node-create " \o t \o n \o c :
        t \in NodeTypeWords,
        n \in {"", " TestNode", " \"Test Node\""},
        c \in {"", " 300,200", " 2001,0"}}
    \cup {"/node-type " \o n \o " " \o t :
            n \in {"node1", "\"My Node\""}, t \in NodeTypeWords}
    \cup {"/task-create \"My Task\"" \o n \o p :
            n \in {"", " \"My Process\""}, p \in OptionalArg(PriorityWords)}
    \cup {"/task-priority " \o n \o " " \o p :
            n \in {"task1", "\"Urgent Task\""}, p \in PriorityWords}
    \cup {h \o " \"Registration\" \"Validation\"" \o t :
            h \in {"/connect", "/flowline-create"}, t \in OptionalArg(FlowlineTypeWords)}
    \cup {"/flowline-type \"A\" \"B\" " \o t : t \in FlowlineTypeWords}
    \cup {"/matrix-move " \o n \o " " \o q :
            n \in {"task1", "\"Important Task\""}, q \in QuadrantWords}
    \cup {"/matrix-show" \o q : q \in OptionalArg(QuadrantWords)}
    \cup {"/workflow-export" \o f : f \in OptionalArg(FormatWords)}

\* The destructive command, with and without a confirmation token.
ClearInputs ==
    {h \o c :
        h \in {"/workflow-clear", "/workflow-reset", "/workflow_clear", "/WorkflowReset"},
        c \in OptionalArg({"yes", "confirm", "YES", "Confirm", "no", "yes please"})}

\* The list commands, with and without a filter string.
ListInputs ==
    {h \o f :
        h \in {"/note-list", "/opp-list", "/tag-list", "/notelist", "/opp_list"},
        f \in OptionalArg({"tag:a,b limit:5", "tag:a", "foo:bar", "limit:10",
                           "opp:opp-123 task:task-456", "tag:a,b foo:bar limit:5",
                           "mytag:x", "limit:5 limit:7 tag:x tag:y", "recent"})}

\* One use or more of every other pattern of the workflow server.
WorkflowInputs ==
    {"/node-delete \"User Registration\"", "/delete-node node1", "/remove_node node1",
     "/node-rename \"Old Name\" \"New Name\"", "/node-rename Old New",
     "/node-move \"My Node\" 300,200", "/node-move node1 2500,10",
     "/add-task \"My Task\"", "/create_task \"My Task\" \"My Process\" high",
     "/task-delete \"My Task\"", "/task-move \"Validate email\" \"Email Processing\"",
     "/task-advance task1 \"Done\"", "/disconnect \"Old Connection\" \"Target\"",
     "/flowline-delete \"A\" \"B\"", "/disconnect all", "/disconnect  all",
     "/tag-create \"urgent\"", "/tag-create \"urgent\" status color=red",
     "/tag-create \"urgent\" a-b", "/tag-add \"urgent\" node1",
     "/tag-remove \"urgent\" node1", "/workflow-save", "/workflow-save \"my-workflow\"",
     "/workflow-save my-workflow", "/workflow-load \"my-workflow\"", "/workflow-load",
     "/workflow-status", "/workflow-stats", "/WORKFLOW-STATUS", "/workflow-status now",
     "/matrix-enter", "/matrix-exit", "/matrix_enter", "/view-zoom in",
     "/view-zoom 150", "/view-center", "/view-center \"My Node\"",
     "/view-focus node1", "/select node1", "/select all", "/select-all",
     "/select-all node", "/selectall", "/select-none", "/select-by type=decision",
     "/goto \"My Node\"", "/goto node1", "/find \"My Node\"", "/next", "/next task",
     "/previous", "/previous node", "/batch-create node A,B,C",
     "/batch-connect \"A,B\" \"C,D\"", "/batch-tag \"urgent\" node1,node2"}

\* One use or more of every other pattern of the chat server.
ChatInputs ==
    {"/note", "/note Meeting with client", "/note ab", "/note-create Remember to follow up.",
     "/note_create x", "/note-search website redesign", "/note-search a",
     "/note-find client meeting", "/note-tag note-1 urgent client",
     "/note-link note-1 opp-2", "/note-link note-1", "/opp", "/opp pipeline",
     "/opp-create Website Redesign - Complete overhaul",
     "/opp-create \"Website Redesign Project\"", "/opp-create ab",
     "/opp-link opp-1 task-2", "/opp-search redesign", "/task-note task-1 Check the logs",
     "/task-link task-1 note-2", "/analyze We decided to ship on 12/01/2025",
     "/suggest", "/suggest next steps", "/associate note-1 opp-2",
     "/sql \"SELECT * FROM workflows LIMIT 5\"", "/sql SELECT 1",
     "/db-query \"SELECT 1\"", "/db_query SELECT 1", "/help", "/help note", "/help ",
     "/HELP sql", "/commands", "/status", "/Status", "/status now"}

\* '/'-inputs that neither table matches, with and without a workflow keyword.
UnknownInputs ==
    {"/", "/nod-create process", "/unknown-command", "/unknown-workflow-command",
     "/foo", "/foo bar", "/zzz", "/helpme", "/notes", "/node", "/workflow",
     "/task-creat \"My Task\"", "/xyz\tcreate", "/q\nw"}

\* Input that is no command.
TextInputs ==
    {"", "hello world", "note this", "This is just regular text that should go to LLM",
     "node-create process", "what is a /node-create?", "\t"}

\* Inputs that are also given with whitespace around them.
PaddedInputs ==
    {l \o s \o r :
        s \in {"/status", "/workflow-status", "/node-create process", "/workflow-clear yes",
               "/foo", "/task-priority task1 extreme", "hello world", "/note-list tag:a"},
        l \in Pads, r \in Pads}

\* At most this many tokens are combined into a filter string.
MaxFilterTokens == 2

FilterTokens == {"tag:a,b", "tag:z", "limit:5", "limit:7", "opp:opp-123", "task:t1"}

RECURSIVE FilterStrings(_)
FilterStrings(n) ==
    IF n = 1 THEN FilterTokens
    ELSE FilterStrings(n - 1)
         \cup {f \o " " \o t : f \in FilterStrings(n - 1), t \in FilterTokens}

\* The four keys together, in every order.
FourKeyStrings ==
    LET T == {"tag:a,b", "opp:o1", "task:t1", "limit:5"}
    IN  {q[1] \o " " \o q[2] \o " " \o q[3] \o " " \o q[4] :
            q \in {p \in T \X T \X T \X T :
                      Cardinality({p[1], p[2], p[3], p[4]}) = 4}}

\* The list commands of the chat server with filter strings of recognised keys.
FilterInputs ==
    {h \o " " \o f : h \in {"/note-list", "/opp-list"},
                     f \in FilterStrings(MaxFilterTokens)}
    \cup {"/note-list " \o f : f \in FourKeyStrings}

\* Beginnings of commands, as typed so far.
PartialInputs ==
    {"/n", "/no", "/note", "/note-", "/NOTE-", "/node-", "/task", "/w", "/workflow-",
     "/sel", "/Help", "/opp-create &lt;title&gt;", "/x", "/note-list [filters] and"}

\* s repeated n times
RECURSIVE Repeat(_, _)
Repeat(s, n) ==
    IF n = 0 THEN ""
    ELSE LET half == Repeat(s, n \div 2)
         IN  half \o half \o (IF n % 2 = 1 THEN s ELSE "")

\* Messages for the context extractor: every choice of the fragments, as it
\* is, and filled up to the length where content counts as substantial, to one
\* character more, and to one character past the length that calls for analysis.
ContextInputs ==
    LET \* Pieces of a message: one with an action keyword, one with an
        \* identifier, one with a word of the deadline topic and a date, one
        \* with a decision keyword.
        Fragments == <<"we need to", "see opp-12", "due 12/01/2025", "as agreed">>
        \* text, filled with dots up to n characters
        PadTo(text, n) == text \o Repeat(".", Max(0, n - Len(text)))
    IN
    {PadTo(join(" ", SelectSeq(Fragments, LAMBDA f : f \in chosen)), n) :
        chosen \in SUBSET Range(Fragments),
        n \in {0, SubstantialLen, SubstantialLen + 1, AnalysisLen + 1}}
    \cup {"What is the project status? @anna #q3 good great problem",
          PadTo("We need to review the project for opp-12: what is due?", AnalysisLen + 1)}

Inputs ==
    EnumInputs \cup ClearInputs \cup ListInputs \cup WorkflowInputs \cup ChatInputs
    \cup UnknownInputs \cup TextInputs \cup PaddedInputs \cup FilterInputs
    \cup PartialInputs \cup ContextInputs

\* The arguments of a parse call: every input, and one value that is no string.
Args == {Some(s) : s \in Inputs} \cup {None}

-----------------------------------------------------------------------------
(* The calls.  A request is one argument; the servers keep nothing between    *)
(* calls, so a behaviour is the calls made on one request.                    *)

NoResult == EmptyDict

\* command_data as parse_chat_input returns it for a matched command
ChatCommand(command_type, parameters) ==
    [is_command |-> TRUE, command_type |-> Some(command_type),
     parameters |-> parameters]

\* command_data handed to validate_command by a caller: notes and searches of
\* lengths around the limits, with and without whitespace around the value.
ChatCommandData ==
    {ChatCommand(t, [content |-> Some(c)]) :
        t \in {"note", "note-create"},
        c \in {"", "ab", "  ab  ", "abc", " abc\t", Repeat("a", NoteMaxLen),
               Repeat("a", NoteMaxLen + 1), "   " \o Repeat("a.", NoteMaxLen)}}
    \cup {ChatCommand(t, [query |-> Some(q)]) :
            t \in {"note-search", "note-find", "opp-search"},
            q \in {"", "a", " a ", "ab", " ab "}}
    \cup {ChatCommand("note-create", EmptyDict),
          ChatCommand("opp-create", [title |-> Some(" ab "), description |-> Some("")])}

\* first_parse once server has parsed arg with this result: the first result
\* for an argument stays.
Remembered(server, arg, result) ==
    LET key == <<server, arg>>
    IN  IF key \in DOMAIN first_parse
        THEN [first_parse EXCEPT ![key].again = TRUE]
        ELSE [k \in DOMAIN first_parse \cup {key} |->
                 IF k = key THEN [result |-> result, again |-> FALSE]
                 ELSE first_parse[k]]

Init ==
    /\ \/ /\ pc = "request"
          /\ input_text \in Args
          /\ parsed = NoResult
       \/ /\ pc = "chat_command_data"
          /\ input_text = None
          /\ parsed \in ChatCommandData
    /\ validation = NoResult
    /\ execution = NoResult
    /\ completion = NoResult
    /\ extraction = NoResult
    /\ help = NoResult
    /\ registry = Registry
    /\ first_parse = <<>>
    /\ opportunities = <<>>
    /\ note_associations = <<>>
    /\ outcome = NoResult

ParseChatInput ==
    /\ pc = "request"
    /\ parsed' = parse_chat_input(input_text)
    /\ first_parse' = Remembered("chat", input_text, parsed')
    /\ pc' = "chat_parsed"
    /\ UNCHANGED <<input_text, validation, execution, completion, extraction,
                 help, registry>>
    /\ UNCHANGED notes_vars

ValidateCommand ==
    /\ pc \in {"chat_parsed", "chat_command_data"}
    /\ validation' = validate_command(parsed)
    /\ pc' = "chat_validated"
    /\ UNCHANGED <<input_text, parsed, execution, completion, extraction,
                 help, registry, first_parse>>
    /\ UNCHANGED notes_vars

ParseWorkflowCommand ==
    /\ pc = "request"
    /\ parsed' = parse_workflow_command(input_text)
    /\ first_parse' = Remembered("workflow", input_text, parsed')
    /\ pc' = "workflow_parsed"
    /\ UNCHANGED <<input_text, validation, execution, completion, extraction,
                 help, registry>>
    /\ UNCHANGED notes_vars

ValidateWorkflowCommand ==
    /\ pc = "workflow_parsed"
    /\ validation' = validate_workflow_command(parsed)
    /\ pc' = "workflow_validated"
    /\ UNCHANGED <<input_text, parsed, execution, completion, extraction,
                 help, registry, first_parse>>
    /\ UNCHANGED notes_vars

ExecuteWorkflowCommand ==
    /\ pc \in {"workflow_parsed", "workflow_validated"}
    /\ execution' = execute_workflow_command(parsed)
    /\ pc' = "workflow_executed"
    /\ UNCHANGED <<input_text, parsed, validation, completion, extraction,
                 help, registry, first_parse>>
    /\ UNCHANGED notes_vars

SuggestCommandCompletion ==
    /\ pc = "request"
    /\ completion' = suggest_command_completion(input_text)
    /\ pc' = "completed"
    /\ UNCHANGED <<input_text, parsed, validation, execution, extraction,
                 help, registry, first_parse>>
    /\ UNCHANGED notes_vars

ExtractContextFromInput ==
    /\ pc = "request"
    /\ extraction' \in extract_context_from_input(input_text)
    /\ pc' = "context"
    /\ UNCHANGED <<input_text, parsed, validation, execution, completion,
                 help, registry, first_parse>>
    /\ UNCHANGED notes_vars

\* generate_workflow_help with the slip of emptying the description table it
\* has handed out.
GenerateWorkflowHelp_emptying ==
    /\ pc = "request"
    /\ help' = generate_workflow_help(input_text)
    /\ registry' = [registry EXCEPT !.workflow.command_descriptions = <<>>]
    /\ pc' = "workflow_help"
    /\ UNCHANGED <<input_text, parsed, validation, execution, completion, extraction,
                 first_parse>>
    /\ UNCHANGED notes_vars

GenerateWorkflowHelp ==
    /\ pc = "request"
    /\ help' = generate_workflow_help(input_text)
    /\ pc' = "workflow_help"
    /\ UNCHANGED <<input_text, parsed, validation, execution, completion, extraction,
                 registry, first_parse>>
    /\ UNCHANGED notes_vars

GenerateCommandHelp ==
    /\ pc = "request"
    /\ help' = generate_command_help(input_text)
    /\ pc' = "chat_help"
    /\ UNCHANGED <<input_text, parsed, validation, execution, completion, extraction,
                 registry, first_parse>>
    /\ UNCHANGED notes_vars

Next ==
    \/ ParseChatInput
    \/ ValidateCommand
    \/ ParseWorkflowCommand
    \/ ValidateWorkflowCommand
    \/ ExecuteWorkflowCommand
    \/ SuggestCommandCompletion
    \/ ExtractContextFromInput
    \/ GenerateWorkflowHelp
    \/ GenerateCommandHelp

Spec == Init /\ [][Next]_vars

-----------------------------------------------------------------------------
(* A session: one server process of each kind answers request after request. *)

\* The arguments of the requests of a session: an unknown command, whose
\* result has a suggestion drawn from the description table, a command with a
\* value that validation looks up in the valid values.
SessionArgs == {Some("/nod-create process"), Some("/task-priority task1 extreme")}

SessionInit ==
    /\ pc = "request"
    /\ input_text \in SessionArgs
    /\ parsed = NoResult
    /\ validation = NoResult
    /\ execution = NoResult
    /\ completion = NoResult
    /\ extraction = NoResult
    /\ help = NoResult
    /\ registry = Registry
    /\ first_parse = <<>>
    /\ opportunities = <<>>
    /\ note_associations = <<>>
    /\ outcome = NoResult

\* The next request arrives; what the calls before returned has gone to the
\* caller.
NewRequest ==
    /\ pc # "request"
    /\ pc' = "request"
    /\ input_text' \in SessionArgs
    /\ parsed' = NoResult
    /\ validation' = NoResult
    /\ execution' = NoResult
    /\ completion' = NoResult
    /\ extraction' = NoResult
    /\ help' = NoResult
    /\ UNCHANGED <<registry, first_parse>>
    /\ UNCHANGED notes_vars

SessionNext ==
    \/ Next
    \/ NewRequest

SpecSession == SessionInit /\ [][SessionNext]_vars

-----------------------------------------------------------------------------
(* NoteTakingServer (src/mcp-servers/note-taking-server.py): the SQLite       *)
(* tables opportunities and note_associations, and the calls that write them. *)
(* A table is the sequence of its rows in the order of insertion; a NULL is   *)
(* None; a confidence is in tenths.                                           *)

\* The most rows of note_associations a behaviour fills
MaxRows == 3

\* datetime.now().strftime('%Y%m%d-%H%M%S') at the time of a call
ClockReadings == {"20250101-090000", "20250101-090001"}

\* What the nb command does for create_note: None when it is missing or
\* fails, else the note id _extract_note_id reads from its output
NbOutcomes == {None, Some("1")}

NoteIds == {"1", "2"}
OpportunityIds == {"opp-" \o t : t \in ClockReadings}
Confidences == {5, 10}

\* The id an AUTOINCREMENT primary key gives a row inserted without one.  No
\* call deletes a row, so the largest id ever used is the largest in the table.
NextRowId(table) ==
    IF table = <<>> THEN 1
    ELSE 1 + (CHOOSE m \in {table[k].id : k \in 1..Len(table)} :
                  \A k \in 1..Len(table) : table[k].id <= m)

\* INSERT OR REPLACE INTO note_associations: the rows that conflict with the
\* new row on a uniqueness constraint are deleted and the new row is inserted.
\* The only such constraint of the table is its primary key id.
InsertOrReplace(table, row) ==
    SelectSeq(table, LAMBDA r : r.id # row.id) \o <<row>>

\* A row of note_associations that an INSERT naming note_id, opportunity_id,
\* task_id, tags and confidence makes
AssociationRow(table, note_id, opportunity_id, task_id, tags, confidence) ==
    [id |-> NextRowId(table), note_id |-> note_id, opportunity_id |-> opportunity_id,
     task_id |-> task_id, tags |-> tags, confidence |-> confidence]

\* _create_associations(note_id, opportunity_id, task_id, tags): the table
\* afterwards
create_associations(table, note_id, opportunity_id) ==
    InsertOrReplace(table,
        AssociationRow(table, note_id, Some(opportunity_id), None, Some("[]"), 10))

\* associate_note_with_opportunity: what it returns and the table afterwards
associate_note_with_opportunity(note_id, opportunity_id, confidence, auto_generated) ==
    LET opp_result == SelectSeq(opportunities, LAMBDA o : o.id = opportunity_id)
    IN  IF opp_result = <<>>
        THEN [returns |-> [status |-> "error",
                           error |-> "Opportunity " \o opportunity_id \o " not found"],
              rows |-> note_associations]
        ELSE [returns |-> [status |-> "associated",
                           note_id |-> note_id,
                           opportunity_id |-> opportunity_id,
                           opportunity_title |-> opp_result[1].title,
                           confidence |-> confidence,
                           auto_generated |-> auto_generated],
              rows |-> InsertOrReplace(note_associations,
                           AssociationRow(note_associations, note_id,
                                          Some(opportunity_id), None, None, confidence))]

\* create_opportunity(title), called when the clock reads now and nb does nb:
\* what it returns and the two tables afterwards.  The opportunity row is
\* committed before create_note runs, and create_note returns an error dict
\* when nb fails, so the call reports created either way.
create_opportunity(title, now, nb) ==
    LET opportunity_id == "opp-" \o now
    IN  IF \E k \in 1..Len(opportunities) : opportunities[k].id = opportunity_id
        THEN [returns |-> [status |-> "error",
                           error |-> "UNIQUE constraint failed: opportunities.id"],
              opps |-> opportunities,
              rows |-> note_associations]
        ELSE [returns |-> [opportunity_id |-> opportunity_id,
                           status |-> "created",
                           title |-> title,
                           description |-> None,
                           tags |-> <<>>,
                           metadata |-> EmptyDict],
              opps |-> Append(opportunities, [id |-> opportunity_id, title |-> title]),
              rows |-> IF nb = None THEN note_associations
                       ELSE create_associations(note_associations, nb[1], opportunity_id)]

\* _init_database on a new data directory: the tables are there and empty
NotesInit ==
    /\ pc = "notes"
    /\ input_text = None
    /\ parsed = NoResult
    /\ validation = NoResult
    /\ execution = NoResult
    /\ completion = NoResult
    /\ extraction = NoResult
    /\ help = NoResult
    /\ registry = Registry
    /\ first_parse = <<>>
    /\ opportunities = <<>>
    /\ note_associations = <<>>
    /\ outcome = NoResult

CreateOpportunity ==
    /\ Len(note_associations) < MaxRows
    /\ \E now \in ClockReadings, nb \in NbOutcomes :
          LET call == create_opportunity("Big deal", now, nb)
          IN  /\ outcome' = call.returns
              /\ opportunities' = call.opps
              /\ note_associations' = call.rows
    /\ UNCHANGED command_vars

AssociateNoteWithOpportunity ==
    /\ Len(note_associations) < MaxRows
    /\ \E note_id \in NoteIds, opportunity_id \in OpportunityIds,
          confidence \in Confidences, auto_generated \in BOOLEAN :
          LET call == associate_note_with_opportunity(note_id, opportunity_id,
                                                      confidence, auto_generated)
          IN  /\ outcome' = call.returns
              /\ note_associations' = call.rows
    /\ UNCHANGED <<opportunities, command_vars>>

NotesNext ==
    \/ CreateOpportunity
    \/ AssociateNoteWithOpportunity

SpecNotes == NotesInit /\ [][NotesNext]_vars

-----------------------------------------------------------------------------
(* Properties of the parsers *)

\* s begins with '/' once its leading whitespace is skipped
SlashAfterBlanks(s) ==
    \E i \in 1..Len(s) :
        CharAt(s, i) = "/" /\ \A j \in 1..(i - 1) : CharAt(s, j) \in Whitespace

\* The keys only a result that was matched against the patterns carries.
MatchKeys == {"command_type", "raw_params", "parameters", "action", "command"}

\* C1 (as amended): for every input string that does not start with '/' once
\* its surrounding whitespace is removed, parse_chat_input and
\* parse_workflow_command return is_command / is_workflow_command = false with
\* should_process_with_llm = true, and the result carries nothing of a match
\* against the patterns.
C1_FreeTextAfterStrip ==
    (input_text # None /\ ~SlashAfterBlanks(input_text[1])) =>
        /\ pc = "chat_parsed" =>
             /\ parsed.is_command = FALSE
             /\ parsed.should_process_with_llm = TRUE
             /\ parsed.type = "text"
             /\ DOMAIN parsed \cap MatchKeys = {}
        /\ pc = "workflow_parsed" =>
             /\ parsed.is_workflow_command = FALSE
             /\ parsed.should_process_with_llm = TRUE
             /\ parsed.type = "text"
             /\ DOMAIN parsed \cap MatchKeys = {}

\* Free text with whitespace around it has been parsed by the chat server.
C1_Witness ==
    /\ pc = "chat_parsed"
    /\ input_text = Some(" hello world ")
    /\ parsed.is_command = FALSE
    /\ parsed.content = "hello world"

\* C1 as stated: every input string that does not start with '/' is returned
\* with is_command / is_workflow_command = false and should_process_with_llm =
\* true.
C1_NoLeadingSlashIsFreeText ==
    (input_text # None /\ ~startswith(input_text[1], "/")) =>
        /\ pc = "chat_parsed" =>
             parsed.is_command = FALSE /\ GetFlag(parsed, "should_process_with_llm")
        /\ pc = "workflow_parsed" =>
             parsed.is_workflow_command = FALSE
             /\ GetFlag(parsed, "should_process_with_llm")

\* Inputs built from the documented templates, each with the name of its
\* pattern; the enumerated arguments range over all of valid_values.
WorkflowTemplates ==
    {<<"/node-create " \o t, "node-create">> : t \in Range(valid_values.node_types)}
    \cup {<<"/node-type node1 " \o t, "node-type">> :
            t \in Range(valid_values.node_types)}
    \cup {<<"/connect \"Registration\" \"Validation\" " \o t, "flowline-create">> :
            t \in Range(valid_values.flowline_types)}
    \cup {<<"/flowline-type \"A\" \"B\" " \o t, "flowline-type">> :
            t \in Range(valid_values.flowline_types)}
    \cup {<<"/task-create \"My Task\" \"My Process\" " \o q, "task-create">> :
            q \in Range(valid_values.task_priorities)}
    \cup {<<"/task-priority \"Urgent Task\" " \o q, "task-priority">> :
            q \in Range(valid_values.task_priorities)}
    \cup {<<"/matrix-move \"Important Task\" " \o q, "matrix-move">> :
            q \in Range(valid_values.matrix_quadrants)}
    \cup {<<"/matrix-show " \o q, "matrix-show">> :
            q \in Range(valid_values.matrix_quadrants)}
    \cup {<<"/workflow-export " \o f, "workflow-export">> :
            f \in Range(valid_values.export_formats)}
    \cup {<<"/node-delete \"User Registration\"", "node-delete">>,
          <<"/workflow-save \"my-workflow\"", "workflow-save">>,
          <<"/tag-add \"urgent\" node1", "tag-add">>,
          <<"/matrix-enter", "matrix-enter">>}

ChatTemplates ==
    {<<"/note Meeting with client", "note">>,
     <<"/note-search website redesign", "note-search">>,
     <<"/opp-create Website Redesign - Complete overhaul", "opp-create">>,
     <<"/associate note-1 opp-2", "associate">>,
     <<"/help note", "help">>,
     <<"/status", "status">>}

\* C3: every input built from a pattern's documented template with valid
\* values (every node type, flowline type, task priority, matrix quadrant and
\* export format of valid_values) is parsed to a command result whose
\* command_type is the name of that pattern.
C3_TemplatesParseToTheirRule ==
    /\ \A t \in WorkflowTemplates :
         (pc = "workflow_parsed" /\ input_text = Some(t[1])) =>
             /\ parsed.is_workflow_command = TRUE
             /\ Get(parsed, "command_type") = Some(t[2])
    /\ \A t \in ChatTemplates :
         (pc = "chat_parsed" /\ input_text = Some(t[1])) =>
             /\ parsed.is_command = TRUE
             /\ Get(parsed, "command_type") = Some(t[2])

\* tok is the first whitespace-delimited token of s (s begins with no whitespace)
IsFirstToken(s, tok) ==
    /\ tok # ""
    /\ startswith(s, tok)
    /\ \A i \in 1..Len(tok) : CharAt(tok, i) \notin Whitespace
    /\ Len(tok) = Len(s) \/ CharAt(s, Len(tok) + 1) \in Whitespace

\* No pattern of the table matches the input as the parser sees it.
NoRuleMatches(patterns, s) == FirstMatch(patterns, strip(s), 1) = <<>>

HasWorkflowKeyword(s) ==
    \E k \in 1..Len(workflow_keywords) : contains(lower(s), workflow_keywords[k])

\* r is an unknown-command result for the input s: the flag is set, there is no
\* command_type, the command is the first token of s, the error names it, and
\* the suggestion is absent or one of the described commands.
IsUnknownResult(r, flag, type, message, s, descriptions) ==
    /\ r[flag] = TRUE
    /\ r.type = type
    /\ "command_type" \notin DOMAIN r
    /\ IsFirstToken(s, r.command)
    /\ r.error = message \o r.command
    /\ \/ r.suggestion = None
       \/ \E k \in 1..Len(descriptions) : r.suggestion = Some(descriptions[k].cmd)
    /\ r.should_process_with_llm = FALSE

\* C4 (as amended): an input that starts with '/' and matches no pattern of the
\* queried table is returned by the chat server as an unknown-command result
\* (is_command true, no command_type, the first whitespace-delimited token as
\* the command, an error message, the suggestion, possibly absent); the
\* workflow server returns such a result only when the lower-cased input
\* contains one of its workflow keywords, and otherwise a non_workflow_command
\* result with is_workflow_command false and no command, error or suggestion.
C4_UnmatchedSlashInput ==
    (input_text # None /\ startswith(input_text[1], "/")) =>
        /\ (pc = "chat_parsed" /\ NoRuleMatches(ChatCommandPatterns, input_text[1])) =>
             IsUnknownResult(parsed, "is_command", "unknown_command",
                             "Unknown command: ", input_text[1],
                             ChatCommandDescriptions)
        /\ (pc = "workflow_parsed"
            /\ NoRuleMatches(WorkflowCommandPatterns, input_text[1])) =>
             IF HasWorkflowKeyword(input_text[1])
             THEN IsUnknownResult(parsed, "is_workflow_command",
                                  "unknown_workflow_command",
                                  "Unknown workflow command: ", input_text[1],
                                  WorkflowCommandDescriptions)
             ELSE parsed = [is_workflow_command |-> FALSE,
                            type |-> "non_workflow_command",
                            should_process_with_llm |-> FALSE]

\* An unmatched '/' input of two tokens has been parsed by the chat server.
C4_Witness ==
    /\ pc = "chat_parsed"
    /\ input_text = Some("/nod-create process")
    /\ parsed.type = "unknown_command"
    /\ parsed.command = "/nod-create"
    /\ parsed.suggestion # None

\* C4 as stated: every input that starts with '/' and matches no pattern of
\* the queried table, chat or workflow, is returned as an unknown-command
\* result: is_command true, no command_type, the first token as the command,
\* an error message and the suggestion.
C4_UnmatchedIsUnknownCommand ==
    (input_text # None /\ startswith(input_text[1], "/")) =>
        /\ (pc = "chat_parsed" /\ NoRuleMatches(ChatCommandPatterns, input_text[1])) =>
             /\ parsed.is_command = TRUE
             /\ DOMAIN parsed \cap {"command", "error", "suggestion"}
                  = {"command", "error", "suggestion"}
        /\ (pc = "workflow_parsed"
            /\ NoRuleMatches(WorkflowCommandPatterns, input_text[1])) =>
             /\ parsed.is_workflow_command = TRUE
             /\ DOMAIN parsed \cap {"command", "error", "suggestion"}
                  = {"command", "error", "suggestion"}

\* C5: every pattern has its own extraction rule: a result for a matched
\* input has an action that is not absent, and parameters filled from the
\* capture groups whenever a group took part in the match.
C5_EveryRuleExtracts ==
    (pc \in {"chat_parsed", "workflow_parsed"} /\ "command_type" \in DOMAIN parsed) =>
        /\ Get(parsed, "action") # None
        /\ (\E k \in 1..Len(parsed.raw_params) : parsed.raw_params[k] # None) =>
               parsed.parameters # EmptyDict

\* The parameter that holds the enumerated value of a command, and the list
\* of valid_values it is to be in.
EnumeratedField ==
    [node_create |-> [key |-> "type", allowed |-> valid_values.node_types],
     node_type |-> [key |-> "type", allowed |-> valid_values.node_types],
     flowline_create |-> [key |-> "type", allowed |-> valid_values.flowline_types],
     flowline_type |-> [key |-> "type", allowed |-> valid_values.flowline_types],
     task_create |-> [key |-> "priority", allowed |-> valid_values.task_priorities],
     task_priority |-> [key |-> "priority", allowed |-> valid_values.task_priorities],
     matrix_move |-> [key |-> "quadrant", allowed |-> valid_values.matrix_quadrants]]

EnumeratedCommands ==
    {"node-create", "node-type", "flowline-create", "flowline-type", "task-create",
     "task-priority", "matrix-move"}

\* C6: a parsed node-create, node-type, flowline-create, flowline-type,
\* task-create, task-priority or matrix-move command whose parameters carry a
\* node type, flowline type, task priority or matrix quadrant outside the
\* allowed list of valid_values is validated to valid = false with an error.
C6_EnumeratedValuesChecked ==
    (pc = "workflow_validated" /\ "command_type" \in DOMAIN parsed
     /\ parsed.command_type[1] \in EnumeratedCommands) =>
        LET field == EnumeratedField[replace(parsed.command_type[1], "-", "_")]
            value == Get(parsed.parameters, field.key)
        IN  (value # None /\ ~InList(value[1], field.allowed)) =>
                validation.valid = FALSE /\ validation.errors # <<>>

AllowedPriorities == {"low", "normal", "high", "urgent"}

\* C7: '/task-priority task1 extreme', parsed and validated by the workflow
\* server, is not valid and has an error that names the allowed priorities low,
\* normal, high, urgent; a parsed task-priority command is valid exactly when
\* its priority is one of these four.
C7_TaskPriorityValidity ==
    (pc = "workflow_validated" /\ Get(parsed, "command_type") = Some("task-priority")) =>
        /\ validation.valid = (parsed.parameters.priority[1] \in AllowedPriorities)
        /\ ~validation.valid =>
              /\ Len(validation.errors) = 1
              /\ contains(validation.errors[1], "low, normal, high, urgent")
        /\ input_text = Some("/task-priority task1 extreme") =>
              /\ parsed.parameters.priority = Some("extreme")
              /\ validation.valid = FALSE

\* '/task-priority task1 extreme' has been validated and refused.
C7_Witness ==
    /\ pc = "workflow_validated"
    /\ input_text = Some("/task-priority task1 extreme")
    /\ validation.valid = FALSE
    /\ validation.errors =
         <<"Invalid priority 'extreme'. Valid priorities: low, normal, high, urgent">>

\* C8: a workflow-clear / workflow-reset command without the confirmation flag
\* is validated to valid = true with a warning and with a suggestions list
\* that contains the corrected invocation '/workflow-clear yes'.
C8_ClearSuggestsConfirmation ==
    (pc = "workflow_validated" /\ Get(parsed, "command_type") = Some("workflow-clear")
     /\ ~parsed.parameters.confirmed) =>
        /\ validation.valid = TRUE
        /\ validation.warnings # <<>>
        /\ \E k \in 1..Len(validation.suggestions) :
              contains(validation.suggestions[k], "/workflow-clear yes")

\* C9: for every input that matches the workflow-clear pattern,
\* parameters.confirmed is true when the confirmation token is yes or confirm,
\* and false for any other token and for no token.
C9_ConfirmedIffYesOrConfirm ==
    (pc = "workflow_parsed" /\ Get(parsed, "command_type") = Some("workflow-clear")) =>
        LET tokens == split(input_text[1])
        IN  parsed.parameters.confirmed
              = (Len(tokens) >= 2 /\ tokens[2] \in {"yes", "confirm"})

\* A workflow-reset with the token confirm has been parsed.
C9_Witness ==
    /\ pc = "workflow_parsed"
    /\ input_text = Some("/workflow-reset confirm")
    /\ Get(parsed, "command_type") = Some("workflow-clear")
    /\ parsed.parameters.confirmed = TRUE

\* C10: for note-list, opp-list and tag-list, parse stores the filters parsed
\* from the optional trailing argument under parameters.filters, the empty
\* filters when there is no argument.
C10_ListCommandsStoreFilters ==
    (pc \in {"chat_parsed", "workflow_parsed"}
     /\ Get(parsed, "command_type")
          \in {Some("note-list"), Some("opp-list"), Some("tag-list")}) =>
        LET tokens == split(input_text[1])
        IN  /\ "filters" \in DOMAIN parsed.parameters
            /\ Len(tokens) = 1 => Get(parsed.parameters, "filters") = EmptyDict
            /\ (Len(tokens) = 3 /\ tokens[2] = "tag:a,b" /\ tokens[3] = "limit:5") =>
                  Get(parsed.parameters, "filters")
                    = [tags |-> <<"a", "b">>, limit |-> 5]

\* x and y of the parameters are given and one of them is outside 0..2000
PositionOutside(parameters) ==
    /\ Get(parameters, "x") # None
    /\ Get(parameters, "y") # None
    /\ \/ int(parameters.x[1]) < 0 \/ int(parameters.x[1]) > 2000
       \/ int(parameters.y[1]) < 0 \/ int(parameters.y[1]) > 2000

\* C11: a parsed workflow command that carries the position fields x and y
\* (node-create with coordinates, node-move) is validated with a canvas-bounds
\* warning when a coordinate is outside 0..2000, the position itself never
\* being an error, and without that warning when both are inside.
C11_PositionsRangeChecked ==
    (pc = "workflow_validated"
     /\ Get(parsed, "command_type") \in {Some("node-create"), Some("node-move")}
     /\ Get(parsed.parameters, "x") # None /\ Get(parsed.parameters, "y") # None) =>
        /\ PositionOutside(parsed.parameters)
             = (\E k \in 1..Len(validation.warnings) :
                   validation.warnings[k] = "Position outside typical canvas bounds")
        /\ \A k \in 1..Len(validation.errors) :
              ~contains(validation.errors[k], "osition")

\* C12: for the unknown token 'nod-create' the suggestion, made from the
\* known commands, which contain the /node-create command, is the /node-create
\* command.
C12_NodCreateSuggestsNodeCreate ==
    (pc \in {"chat_parsed", "workflow_parsed"}
     /\ "command" \in DOMAIN parsed /\ parsed.command = "/nod-create") =>
        /\ parsed.suggestion # None
        /\ startswith(parsed.suggestion[1], "/node-create")

\* The filters that a list command of the chat server stored for the filter
\* string arg are f.
ListFiltersAre(arg, f) ==
    (pc = "chat_parsed"
     /\ input_text \in {Some("/note-list " \o arg), Some("/opp-list " \o arg)}) =>
        parsed.parameters.filters = f

\* C13: a key:value token whose key is not exactly tag, opp, task or limit
\* (foo:bar, or a key that only ends in a recognised key, as mytag:x) is
\* ignored by the filter parser: the filters are those of the string without
\* the token, and there is no error.
C13_UnknownKeysIgnored ==
    /\ ListFiltersAre("foo:bar", EmptyDict)
    /\ ListFiltersAre("tag:a,b foo:bar limit:5", [tags |-> <<"a", "b">>, limit |-> 5])
    /\ ListFiltersAre("mytag:x", EmptyDict)
    /\ (pc = "chat_parsed"
        /\ Get(parsed, "command_type") \in {Some("note-list"), Some("opp-list")}) =>
           "error" \notin DOMAIN parsed

FilterKeys == {"tag:", "opp:", "task:", "limit:"}

\* tok is a recognised key and a value without ':', of digits for limit
WellFormedFilterToken(tok) ==
    \E key \in FilterKeys :
        /\ startswith(tok, key)
        /\ Len(tok) > Len(key)
        /\ \A i \in (Len(key) + 1)..Len(tok) :
              /\ CharAt(tok, i) # ":"
              /\ key = "limit:" => CharAt(tok, i) \in Digits

\* The value of the first of the tokens with the key, None when there is none.
FirstValue(tokens, key) ==
    IF \E k \in 1..Len(tokens) : startswith(tokens[k], key)
    THEN LET k == CHOOSE j \in 1..Len(tokens) :
                      /\ startswith(tokens[j], key)
                      /\ \A l \in 1..(j - 1) : ~startswith(tokens[l], key)
         IN  Some(SubSeq(tokens[k], Len(key) + 1, Len(tokens[k])))
    ELSE None

\* The filters of a sequence of tokens, each key taken on its own.
FiltersOfTokens(tokens) ==
    LET name == [tags |-> "tag:", opportunity_id |-> "opp:", task_id |-> "task:",
                 limit |-> "limit:"]
        present == {f \in DOMAIN name : FirstValue(tokens, name[f]) # None}
    IN  [f \in present |->
            LET v == FirstValue(tokens, name[f])
            IN  CASE f = "tags" -> split_on(v[1], ",")
                  [] f = "limit" -> int(v[1])
                  [] OTHER -> v]

\* C14: the filter parser takes each recognised key on its own: 'tag:a,b
\* limit:5' gives the tags a, b and the limit 5; tag, opp, task and limit
\* tokens may occur together in any order; of a key that occurs more than once
\* the first value is used.
C14_FilterKeysIndependent ==
    (pc = "chat_parsed"
     /\ Get(parsed, "command_type") \in {Some("note-list"), Some("opp-list")}) =>
        LET tokens == Tail(split(input_text[1]))
        IN  /\ (\A k \in 1..Len(tokens) : WellFormedFilterToken(tokens[k])) =>
                  parsed.parameters.filters = FiltersOfTokens(tokens)
            /\ tokens = <<"tag:a,b", "limit:5">> =>
                  parsed.parameters.filters = [tags |-> <<"a", "b">>, limit |-> 5]
            /\ tokens = <<"limit:5", "limit:7", "tag:x", "tag:y">> =>
                  parsed.parameters.filters = [tags |-> <<"x">>, limit |-> 5]

\* A filter string with the limit before the tags has been parsed.
C14_Witness ==
    /\ pc = "chat_parsed"
    /\ input_text = Some("/opp-list limit:7 tag:a,b")
    /\ parsed.parameters.filters = [tags |-> <<"a", "b">>, limit |-> 7]

\* C15: for every input that matches node-create, task-create or
\* flowline-create, an optional capture that took no part in the match is
\* replaced by its default (node type 'process', flowline type 'sequence', task
\* priority 'normal'), while a node name and coordinates that are not given
\* stay absent; '/node-create process' gives type 'process', no name, no x/y.
C15_DefaultsFilled ==
    pc = "workflow_parsed" =>
        /\ input_text = Some("/node-create process") =>
              parsed.parameters
                = [type |-> Some("process"), name |-> None, x |-> None, y |-> None]
        /\ \A t \in NodeTypeWords :
              /\ input_text = Some("/node-create " \o t) =>
                    parsed.parameters
                      = [type |-> Some(t), name |-> None, x |-> None, y |-> None]
              /\ input_text = Some("/node-create " \o t \o " 300,200") =>
                    parsed.parameters
                      = [type |-> Some(t), name |-> None,
                         x |-> Some("300"), y |-> Some("200")]
        /\ \A n \in {"", " \"My Process\""} :
              /\ input_text = Some("/task-create \"My Task\"" \o n) =>
                    /\ parsed.parameters.priority = Some("normal")
                    /\ parsed.parameters.node
                         = (IF n = "" THEN None ELSE Some("My Process"))
              /\ \A p \in PriorityWords :
                    input_text = Some("/task-create \"My Task\"" \o n \o " " \o p) =>
                        parsed.parameters.priority = Some(p)
        /\ \A h \in {"/connect", "/flowline-create"} :
              /\ input_text = Some(h \o " \"Registration\" \"Validation\"") =>
                    parsed.parameters.type = Some("sequence")
              /\ \A t \in FlowlineTypeWords :
                    input_text
                      = Some(h \o " \"Registration\" \"Validation\" " \o t) =>
                        parsed.parameters.type = Some(t)
        \* whatever the input: a default exactly where the group is absent
        /\ Get(parsed, "command_type") = Some("node-create") =>
              /\ parsed.parameters.type # None
              /\ (parsed.raw_params[4] = None) = (parsed.parameters.x = None)
              /\ (parsed.raw_params[5] = None) = (parsed.parameters.y = None)
        /\ (Get(parsed, "command_type") = Some("task-create")
            /\ parsed.raw_params[3] = None) =>
              parsed.parameters.priority = Some("normal")
        /\ (Get(parsed, "command_type") = Some("flowline-create")
            /\ parsed.raw_params[3] = None) =>
              parsed.parameters.type = Some("sequence")

\* A task-create without node and priority has been parsed.
C15_Witness ==
    /\ pc = "workflow_parsed"
    /\ input_text = Some("/task-create \"My Task\"")
    /\ parsed.raw_params = <<Some("My Task"), None, None>>
    /\ parsed.parameters
         = [name |-> Some("My Task"), node |-> None, priority |-> Some("normal")]

\* C16: for every node-create input, the node name given as a bare word
\* ('/node-create process TestNode') or in quotes ('/node-create process "Test
\* Node"') is stored in the one field parameters.name, without quotes,
\* whichever of the two groups matched.
C16_NodeNameResolved ==
    pc = "workflow_parsed" =>
        /\ \A t \in NodeTypeWords, c \in {"", " 300,200", " 2001,0"} :
              /\ input_text = Some("/node-create " \o t \o " TestNode" \o c) =>
                    /\ parsed.parameters.name = Some("TestNode")
                    /\ parsed.raw_params[2] = None
              /\ input_text = Some("/node-create " \o t \o " \"Test Node\"" \o c) =>
                    /\ parsed.parameters.name = Some("Test Node")
                    /\ parsed.raw_params[3] = None
        /\ Get(parsed, "command_type") = Some("node-create") =>
              /\ parsed.parameters.name \in {parsed.raw_params[2], parsed.raw_params[3]}
              /\ (parsed.parameters.name = None)
                   = (parsed.raw_params[2] = None /\ parsed.raw_params[3] = None)
              /\ parsed.parameters.name = None
                 \/ ~contains(parsed.parameters.name[1], "\"")

\* A node-create with a bare name and coordinates has been parsed.
C16_Witness ==
    /\ pc = "workflow_parsed"
    /\ input_text = Some("/node-create decision TestNode 300,200")
    /\ parsed.raw_params[3] = Some("TestNode")
    /\ parsed.parameters.name = Some("TestNode")

\* The length of s without the whitespace around it.
TrimmedLen(s) ==
    IF \A i \in 1..Len(s) : CharAt(s, i) \in Whitespace THEN 0
    ELSE LET first == CHOOSE i \in 1..Len(s) :
                          /\ CharAt(s, i) \notin Whitespace
                          /\ \A j \in 1..(i - 1) : CharAt(s, j) \in Whitespace
             last == CHOOSE i \in 1..Len(s) :
                         /\ CharAt(s, i) \notin Whitespace
                         /\ \A j \in (i + 1)..Len(s) : CharAt(s, j) \in Whitespace
         IN  last - first + 1

HasLengthWarning(v) ==
    \E k \in 1..Len(v.warnings) : v.warnings[k] = "Note content is very long (>10k chars)"

\* C17: validate_command marks a note / note-create command invalid exactly
\* when its content without the surrounding whitespace has fewer than 3
\* characters, and a note-search, note-find or opp-search command invalid
\* exactly when its stripped query has fewer than 2; content of more than
\* 10000 characters adds a warning and does not make the command invalid.
C17_MinimumLengths ==
    (pc = "chat_validated" /\ GetFlag(parsed, "is_command")
     /\ "command_type" \in DOMAIN parsed) =>
        /\ (parsed.command_type[1] \in {"note", "note-create"}
            /\ "content" \in DOMAIN parsed.parameters) =>
              LET content == parsed.parameters.content[1]
              IN  /\ validation.valid = (TrimmedLen(content) >= 3)
                  /\ ~validation.valid =>
                        validation.errors
                          = <<"Note content too short (minimum 3 characters)">>
                  /\ HasLengthWarning(validation) = (Len(content) > 10000)
        /\ parsed.command_type[1] \in {"note-search", "note-find", "opp-search"} =>
              LET query == parsed.parameters.query[1]
              IN  /\ validation.valid = (TrimmedLen(query) >= 2)
                  /\ ~validation.valid =>
                        validation.errors
                          = <<"Search query too short (minimum 2 characters)">>

\* A note of 10001 characters has been validated: valid, with the warning.
C17_Witness ==
    /\ pc = "chat_validated"
    /\ Get(parsed, "command_type") = Some("note-create")
    /\ "content" \in DOMAIN parsed.parameters
    /\ Len(parsed.parameters.content[1]) = 10001
    /\ validation.valid = TRUE
    /\ HasLengthWarning(validation)

\* p is a prefix of c when letters are compared without their case
PrefixIgnoringCase(p, c) ==
    /\ Len(p) <= Len(c)
    /\ \A i \in 1..Len(p) : LowerChar(CharAt(p, i)) = LowerChar(CharAt(c, i))

\* a comes before b in the order of the characters' codes; a # b
Alphabetical(a, b) ==
    LET n == Min(Len(a), Len(b))
        same == {i \in 0..n : \A j \in 1..i : CharAt(a, j) = CharAt(b, j)}
        i == CHOOSE k \in same : \A l \in same : l <= k
    IN  IF i = n THEN Len(a) < Len(b)
        ELSE Ord(CharAt(a, i + 1)) < Ord(CharAt(b, i + 1))

\* C18: for a partial input that starts with '/', suggest_command_completion
\* returns the first 10 of the known commands that have the partial input as
\* a prefix, compared without case, in alphabetical order: never more than 10
\* and never a command without the prefix.
C18_CompletionTopTen ==
    (pc = "completed" /\ input_text # None /\ startswith(input_text[1], "/")) =>
        LET r == completion.suggestions
            known == {ChatCommandDescriptions[k].cmd :
                         k \in 1..Len(ChatCommandDescriptions)}
            matching == {c \in known : PrefixIgnoringCase(input_text[1], c)}
            returned == {r[k].command : k \in 1..Len(r)}
        IN  /\ Len(r) = Min(10, Cardinality(matching))
            /\ returned \subseteq matching
            /\ \A k \in 1..(Len(r) - 1) : Alphabetical(r[k].command, r[k + 1].command)
            /\ \A c \in matching \ returned, k \in 1..Len(r) :
                  Alphabetical(r[k].command, c)
            /\ completion.has_suggestions = (matching # {})

\* The commands that begin with '/n', more than 10, have been completed.
C18_Witness ==
    /\ pc = "completed"
    /\ input_text = Some("/n")
    /\ Len(completion.suggestions) = 10
    /\ completion.suggestions[1].command = "/node-create &lt;type&gt; [name] [x,y]"
    /\ completion.suggestions[6].command = "/note"
    /\ completion.suggestions[6].completion = "ote"

\* The weight, in tenths, of each reason a note-worthiness result can give
ReasonWeight ==
    [substantial_content |-> 3, actionable_content |-> 4, contains_entities |-> 2,
     time_sensitive |-> 3, contains_decisions |-> 3]

\* Whether the indicator that gives the reason holds of the text and what
\* was extracted from it
IndicatorHolds(reason, text, extracted) ==
    CASE reason = "substantial_content" -> Len(text) > 50
      [] reason = "actionable_content" ->
           \E w \in {"todo", "need to", "should", "must", "action", "task"} :
               contains(lower(text), w)
      [] reason = "contains_entities" -> Len(extracted.entities) > 0
      [] reason = "time_sensitive" ->
           \E k \in 1..Len(extracted.topics) : extracted.topics[k] = "deadline"
      [] reason = "contains_decisions" ->
           \E w \in {"decided", "agreed", "concluded", "result"} :
               contains(lower(text), w)

RECURSIVE WeightOf(_)
WeightOf(reasons) ==
    IF reasons = {} THEN 0
    ELSE LET r == CHOOSE x \in reasons : TRUE
         IN  ReasonWeight[r] + WeightOf(reasons \ {r})

\* C19: the note-worthiness score is min(1.0, sum of the weights of the
\* indicators that fired) with the weights 0.3 (longer than 50 characters),
\* 0.4 (action keyword), 0.2 (any entity), 0.3 (deadline topic) and 0.3
\* (decision keyword); it lies in [0,1]; worthy holds exactly when the score
\* is above 0.5; a text longer than 50 characters that contains 'need to'
\* scores at least 0.7 and is worthy.
C19_NoteWorthinessScore ==
    (pc = "context" /\ input_text # None) =>
        LET text == input_text[1]
            n == extraction.note_worthy
            fired == {r \in DOMAIN ReasonWeight : IndicatorHolds(r, text, extraction)}
        IN  /\ Range(n.reasons) = fired
            /\ n.score = Min(10, WeightOf(fired))
            /\ n.score >= 0 /\ n.score <= 10
            /\ n.worthy = (WeightOf(fired) > 5)
            /\ n.worthy = (n.score > 5)
            /\ (Len(text) > 50 /\ contains(lower(text), "need to")) =>
                   (n.score >= 7 /\ n.worthy)

\* A text of 51 characters with 'need to' and nothing else has been assessed:
\* two indicators fired, the score is 0.7.
C19_Witness ==
    /\ pc = "context"
    /\ input_text # None
    /\ Len(input_text[1]) = 51
    /\ contains(input_text[1], "need to")
    /\ extraction.note_worthy.reasons = <<"substantial_content", "actionable_content">>
    /\ extraction.note_worthy.score = 7
    /\ extraction.note_worthy.worthy

\* The key of a parse result that says whether the input is a command
CommandFlag == [chat_parsed |-> "is_command", workflow_parsed |-> "is_workflow_command"]

\* C20: parse never raises: whatever the input, the call returns a result, and
\* when matching or extraction failed inside (the argument is no string) the
\* result has type error, is_command / is_workflow_command false and
\* should_process_with_llm true.
C20_ParseAlwaysReturns ==
    pc \in DOMAIN CommandFlag =>
        LET failed == "type" \in DOMAIN parsed /\ parsed.type = "error"
        IN  /\ parsed # NoResult
            /\ CommandFlag[pc] \in DOMAIN parsed
            /\ failed = (input_text = None)
            /\ \/ ~failed
               \/ /\ "error" \in DOMAIN parsed
                  /\ parsed[CommandFlag[pc]] = FALSE
                  /\ parsed.should_process_with_llm = TRUE

\* The chat parse of an argument that is no string has returned an error result.
C20_Witness ==
    /\ pc = "chat_parsed"
    /\ input_text = None
    /\ parsed.type = "error"
    /\ parsed.error = NoneStripError
    /\ parsed.should_process_with_llm

\* The server whose parse returned last
ParsedBy == [chat_parsed |-> "chat", workflow_parsed |-> "workflow"]

\* C21: parsing the same input again yields the same output, whatever calls
\* (parse, validate, help, completion, execute) were made in between: no call
\* changes the pattern table, the description table or the valid-values table.
C21_ParseRepeatable ==
    /\ registry = Registry
    /\ pc \in DOMAIN ParsedBy =>
           parsed = first_parse[<<ParsedBy[pc], input_text>>].result

\* The workflow server has parsed the unknown command a second time, after
\* both arguments have been through both servers, and returned what it
\* returned the first time.
C21_Witness ==
    /\ pc = "workflow_parsed"
    /\ input_text = Some("/nod-create process")
    /\ DOMAIN first_parse = {"chat", "workflow"} \X SessionArgs
    /\ first_parse[<<"workflow", input_text>>].again
    /\ parsed = first_parse[<<"workflow", input_text>>].result
    /\ parsed.suggestion # None

\* What a field of the envelope holds when the parsed command has no such field
EnvelopeDefault ==
    [action |-> None, parameters |-> EmptyDict, command_type |-> None, original_input |-> ""]

\* C22: execute_workflow_command returns status ready_for_execution only for a
\* workflow command that validate_workflow_command finds valid, and then the
\* action, parameters, command_type and original_input of the envelope are
\* those of the parsed command; in every other case it returns status error
\* and no envelope.
C22_ReadyOnlyWhenValid ==
    pc = "workflow_executed" =>
        LET ready == execution.status = "ready_for_execution"
            is_workflow == "is_workflow_command" \in DOMAIN parsed
                              /\ parsed.is_workflow_command
            verdict == validate_workflow_command(parsed)
        IN  /\ execution.status \in {"ready_for_execution", "error"}
            /\ ready = (is_workflow /\ verdict.valid)
            /\ (validation # NoResult /\ ready) => validation.valid
            /\ ready =>
                  /\ execution.validation = verdict
                  /\ DOMAIN execution.command_data = DOMAIN EnvelopeDefault
                  /\ \A f \in DOMAIN EnvelopeDefault :
                        execution.command_data[f] =
                            IF f \in DOMAIN parsed THEN parsed[f] ELSE EnvelopeDefault[f]
            /\ ~ready => "command_data" \notin DOMAIN execution

\* A valid node-create command has been made ready: the envelope carries its
\* action and its parameters.
C22_Witness ==
    /\ pc = "workflow_executed"
    /\ input_text = Some("/node-create decision \"Test Node\" 300,200")
    /\ validation # NoResult
    /\ validation.valid
    /\ execution.status = "ready_for_execution"
    /\ execution.command_data.action = Some("create_node")
    /\ execution.command_data.parameters = parsed.parameters
    /\ execution.command_data.parameters.name = Some("Test Node")

\* s lowercased, without the slashes it begins with
Cleaned(s) ==
    LET l == lower(s)
        first == CHOOSE i \in 1..(Len(l) + 1) :
                    /\ \A j \in 1..(i - 1) : CharAt(l, j) = "/"
                    /\ (i <= Len(l) => CharAt(l, i) # "/")
    IN  SubSeq(l, first, Len(l))

\* The score of a vocabulary entry for an unknown command, as a fraction
Score(unknown, candidate) ==
    LET u == Cleaned(unknown)
        c == Cleaned(candidate)
    IN  [num |-> Cardinality({ch \in CharSet(u) : ch \in CharSet(c)}),
         den |-> IF Len(u) >= Len(c) THEN Len(u) ELSE Len(c)]

\* Fraction a is above fraction b
Above(a, b) == a.num * b.den > b.num * a.den

\* The entry the Suggestion Engine is to return for an unknown command: the
\* first of the entries with the highest score, when that score is above 0.3
Suggested(vocabulary, unknown) ==
    LET good == {k \in 1..Len(vocabulary) :
                    /\ Above(Score(unknown, vocabulary[k].cmd), [num |-> 3, den |-> 10])
                    /\ \A l \in 1..Len(vocabulary) :
                          ~Above(Score(unknown, vocabulary[l].cmd),
                                 Score(unknown, vocabulary[k].cmd))}
    IN  IF good = {} THEN None
        ELSE Some(vocabulary[CHOOSE k \in good : \A l \in good : k <= l].cmd)

\* The suggestion the last call made, with the unknown command and the
\* vocabulary it was made for; <<>> when the last call made none
LastSuggestion ==
    IF pc = "chat_parsed" /\ "type" \in DOMAIN parsed /\ parsed.type = "unknown_command"
    THEN <<parsed.suggestion, parsed.command, ChatCommandDescriptions>>
    ELSE IF /\ pc = "workflow_parsed" /\ "type" \in DOMAIN parsed
            /\ parsed.type = "unknown_workflow_command"
    THEN <<parsed.suggestion, parsed.command, WorkflowCommandDescriptions>>
    ELSE IF pc = "chat_help" /\ help.type = "command_not_found"
    THEN <<help.suggestion, "/" \o help.query, ChatCommandDescriptions>>
    ELSE IF pc = "workflow_help" /\ help.type = "workflow_command_not_found"
    THEN <<help.suggestion, "/" \o help.query, WorkflowCommandDescriptions>>
    ELSE <<>>

\* C23: the Suggestion Engine scores each vocabulary entry as the number of
\* distinct characters common to both over the greater of the two lengths, on
\* lowercased strings without leading slashes, and returns the entry with the
\* highest score strictly above 0.3, the first in vocabulary order among
\* equals, and absent when no entry scores above 0.3.
C23_SuggestionIsFirstBest ==
    LastSuggestion # <<>> =>
        LastSuggestion[1] = Suggested(LastSuggestion[3], LastSuggestion[2])

\* A suggestion has been made where two entries share the highest score: the
\* earlier one was returned.
C23_Witness ==
    /\ LastSuggestion # <<>>
    /\ LastSuggestion[1] # None
    /\ \E k, l \in 1..Len(LastSuggestion[3]) :
          /\ k < l
          /\ LastSuggestion[3][k].cmd = LastSuggestion[1][1]
          /\ Score(LastSuggestion[2], LastSuggestion[3][l].cmd).num
                 * Score(LastSuggestion[2], LastSuggestion[3][k].cmd).den
             = Score(LastSuggestion[2], LastSuggestion[3][k].cmd).num
                 * Score(LastSuggestion[2], LastSuggestion[3][l].cmd).den

\* The last call validated a command: data whose is_command, or
\* is_workflow_command, flag is set
ValidatedCommand ==
    \/ pc = "chat_validated" /\ "is_command" \in DOMAIN parsed /\ parsed.is_command
    \/ /\ pc = "workflow_validated"
       /\ "is_workflow_command" \in DOMAIN parsed
       /\ parsed.is_workflow_command

\* C24: in every result that validate_command or validate_workflow_command
\* returns for a command, valid is false exactly when the list of errors is
\* not empty; warnings and the suggestions of the advisory pass never make
\* valid false.
C24_InvalidIffErrors ==
    ValidatedCommand =>
        /\ {"valid", "errors"} \subseteq DOMAIN validation
        /\ validation.valid = (Len(validation.errors) = 0)

\* A node-create command has been validated with a position outside the
\* canvas: the warning is there, advice is there, and the command is valid.
C24_Witness ==
    /\ ValidatedCommand
    /\ pc = "workflow_validated"
    /\ Len(validation.warnings) > 0
    /\ Len(validation.suggestions) > 0
    /\ validation.errors = <<>>
    /\ validation.valid

\* The hints in the order of their priority, each with whether its condition
\* holds of the text and of what was extracted from it
HintConditions(text, extracted) ==
    << [command |-> "/note-create", holds |-> extracted.note_worthy.worthy],
       [command |-> "/opp-create",
        holds |-> \/ \E k \in 1..Len(extracted.topics) : extracted.topics[k] = "project"
                  \/ contains(lower(text), "project")
                  \/ contains(lower(text), "initiative")],
       [command |-> "/note-search",
        holds |-> extracted.intent = "question" \/ contains(text, "?")],
       [command |-> "/analyze",
        holds |-> Len(text) > 100 /\ Len(extracted.entities) > 0] >>

\* Where a hint stands in the list r, 0 when it is not there
PlaceOf(command, r) ==
    IF \E k \in 1..Len(r) : r[k].command = command
    THEN CHOOSE k \in 1..Len(r) : r[k].command = command
    ELSE 0

\* C25: suggested_commands has at most 3 entries in the fixed order note
\* creation, opportunity creation, search, analysis; a hint is there only if
\* its condition holds (note creation exactly when the text is note-worthy),
\* and a hint whose condition holds is left out only when three hints of
\* higher priority precede it.
C25_HintsRanked ==
    (pc = "context" /\ input_text # None) =>
        LET r == extraction.suggested_commands
            h == HintConditions(input_text[1], extraction)
            place == [k \in 1..Len(h) |-> PlaceOf(h[k].command, r)]
        IN  /\ Len(r) <= 3
            /\ \A k \in 1..Len(r) : \E j \in 1..Len(h) : place[j] = k
            /\ \A j \in 1..Len(h) : place[j] > 0 => h[j].holds
            /\ \A i, j \in 1..Len(h) :
                  (i < j /\ place[i] > 0 /\ place[j] > 0) => place[i] < place[j]
            /\ (place[1] > 0) = extraction.note_worthy.worthy
            /\ \A j \in 1..Len(h) :
                  (h[j].holds /\ place[j] = 0) =>
                      Cardinality({i \in 1..(j - 1) : place[i] > 0}) = 3

\* All four conditions hold of a text: the three hints of higher priority are
\* suggested and the analysis hint is left out.
C25_Witness ==
    /\ pc = "context"
    /\ input_text # None
    /\ \A k \in 1..4 : HintConditions(input_text[1], extraction)[k].holds
    /\ Len(extraction.suggested_commands) = 3
    /\ extraction.suggested_commands[1].command = "/note-create"
    /\ extraction.suggested_commands[2].command = "/opp-create"
    /\ extraction.suggested_commands[3].command = "/note-search"

\* The commands that link one item to another
LinkingCommands == {"note-link", "opp-link", "task-link", "associate"}

\* C26: validate_command reports "Both IDs required for linking" for a
\* linking command exactly when one of the two identifiers is missing from
\* the parsed input; a linking command whose input supplied both identifiers
\* validates with valid = TRUE.
C26_LinkingNeedsBothIds ==
    (/\ pc = "chat_validated"
     /\ "command_type" \in DOMAIN parsed
     /\ parsed.command_type # None
     /\ parsed.command_type[1] \in LinkingCommands) =>
        LET missing == \E k \in 1..2 : parsed.raw_params[k] \in {None, Some("")}
            reported == \E k \in 1..Len(validation.errors) :
                            validation.errors[k] = "Both IDs required for linking"
        IN  /\ reported = missing
            /\ ~missing => validation.valid

\* C27: in the pipeline parse_workflow_command then execute_workflow_command,
\* an input that matched no workflow rule is never made ready for execution:
\* every envelope returned with status ready_for_execution has an action and
\* a command_type that are not None.
C27_ReadyEnvelopeIsMatched ==
    (pc = "workflow_executed" /\ execution.status = "ready_for_execution") =>
        /\ execution.command_data.action # None
        /\ execution.command_data.command_type # None
        /\ "command_type" \in DOMAIN parsed

\* C28: for every input that matches a chat grammar rule,
\* parse_workflow_command returns is_workflow_command = FALSE, so that a
\* caller who asks the workflow rules first and the chat rules only on
\* is_workflow_command = FALSE reaches the matching chat rule.
C28_ChatCommandsAreNotWorkflow ==
    (pc = "workflow_parsed" /\ input_text # None) =>
        LET chat == parse_chat_input(input_text)
            chat_rule_matched == /\ "command_type" \in DOMAIN chat
                                 /\ chat.command_type # None
        IN  chat_rule_matched => ~parsed.is_workflow_command

\* C29: every example command that generate_workflow_help returns, in the
\* getting_started list and in the examples of a command, is parsed by
\* parse_workflow_command as a matched command: is_workflow_command = TRUE
\* with a command_type set.
C29_HelpExamplesParse ==
    pc = "workflow_help" =>
        \A f \in {"getting_started", "examples"} :
            f \in DOMAIN help =>
                \A k \in 1..Len(help[f]) :
                    LET p == parse_workflow_command(Some(help[f][k]))
                    IN  /\ p.is_workflow_command
                        /\ "command_type" \in DOMAIN p
                        /\ p.command_type # None

\* The rows associate_note_with_opportunity has stored: it names no tags, and
\* the rows create_note stores for a new opportunity do
StoredByAssociate == SelectSeq(note_associations, LAMBDA r : r.tags = None)

\* C30: after any sequence of associate_note_with_opportunity calls there is
\* at most one stored association per pair of note_id and opportunity_id (a
\* call with a pair already stored replaces the earlier row), and a call
\* naming an opportunity that does not exist stores nothing.
C30_OneAssociationPerPair ==
    LET stored == StoredByAssociate
    IN  /\ \A i, j \in 1..Len(stored) :
              (/\ stored[i].note_id = stored[j].note_id
               /\ stored[i].opportunity_id = stored[j].opportunity_id) => i = j
        /\ \A k \in 1..Len(stored) :
              \E o \in 1..Len(opportunities) :
                  stored[k].opportunity_id = Some(opportunities[o].id)

=============================================================================
